---------------------------- MODULE Spec2Model ----------------------------
(***************************************************************************)
(* Account scheduling of the relay service: the unified Claude scheduler   *)
(* (Claude OAuth and Claude Console accounts) and the unified OpenAI       *)
(* scheduler (OpenAI accounts and account groups), with their sticky       *)
(* session maps and per-account rate-limit state.                          *)
(*                                                                         *)
(* Time is counted in ticks of 30 minutes from the instant that            *)
(* new Date('0') denotes; one hour is two ticks.                           *)
(***************************************************************************)
EXTENDS Integers, Sequences, FiniteSets, TLC

(* ------------------------------ bounds --------------------------------- *)

\* The clock runs from 1 to MaxClock.
MaxClock == 3

\* Number of store mutations (admin edits, rate-limit marks, last-used
\* updates) one behaviour performs; lifting a rate limit is not counted.
MaxOps == 1

(* ------------------------- program constants --------------------------- *)

\* setex(..., 3600, ...): the session mapping's time to live, in ticks.
SessionTTL == 2

\* limitDuration = 60 * 60 * 1000 ms, in ticks.
LimitDuration == 2

\* parseInt(account.priority) || 50
DefaultPriority == 50

\* new Date('0').getTime(): the origin of the model's time axis.
DateOfZeroString == 0

(* ------------------------------ the store ------------------------------ *)

ClaudeOAuthIds == {"o1"}
ConsoleIds == {"c1"}
OpenAIIds == {"p1", "p2"}
AllIds == ClaudeOAuthIds \cup ConsoleIds \cup OpenAIIds

\* An id no account record is stored under.
AbsentId == "zz"

\* The order of ids (UUID strings compare as strings).
IdOrder == <<"c1", "o1", "p1", "p2">>

Schedulers == {"claude", "openai"}

IdsOf(s) == IF s = "claude" THEN ClaudeOAuthIds \cup ConsoleIds ELSE OpenAIIds

\* The accountType a scheduler reports for an account of its store.
TypeOf(id) ==
  IF id \in ClaudeOAuthIds THEN "claude-official"
  ELSE IF id \in ConsoleIds THEN "claude-console"
  ELSE IF id \in OpenAIIds THEN "openai"
  ELSE ""

AccountTypes == {"claude-official", "claude-console", "openai"}

Hashes == {"h1"}
Models == {"m1", "m2"}

\* requestedModel = null is "".
NoModel == ""

Statuses == {"active", "error", "blocked"}
Priorities == {0, 10, 50}

\* supportedModels: absent, a list, or (Console) a mapping keyed by model.
\* It is an attribute of Console and OpenAI accounts: the schedulers never
\* read it from a Claude OAuth account.
NoSupportedModels == [kind |-> "none", models |-> {}]
SupportedModelsValues ==
  { NoSupportedModels,
    [kind |-> "list", models |-> {}],
    [kind |-> "list", models |-> {"m1"}],
    [kind |-> "map", models |-> {"m1"}] }

\* An account record as an admin creates it.
DefaultAccount ==
  [ isActive |-> TRUE,
    status |-> "active",
    accountType |-> "shared",
    schedulable |-> TRUE,
    priority |-> <<>>,
    lastUsedAt |-> <<>>,
    rateLimitStatus |-> "normal",
    rateLimitedAt |-> <<>>,
    supportedModels |-> NoSupportedModels,
    tokenUsable |-> TRUE ]

\* Account groups (accountGroupService): platform and members.
GroupIds == {"g1", "gOne", "gEmpty", "gClaude"}
GroupStore ==
  [ g \in GroupIds |->
      IF g = "g1" THEN [platform |-> "openai", members |-> {"p1", "p2"}]
      ELSE IF g = "gOne" THEN [platform |-> "openai", members |-> {"p2"}]
      ELSE IF g = "gEmpty" THEN [platform |-> "openai", members |-> {}]
      ELSE [platform |-> "claude", members |-> {"c1"}] ]

\* apiKeyData as the schedulers read it; "" is an unset binding.
Unbound == [claudeAccountId |-> "", claudeConsoleAccountId |-> "", openaiAccountId |-> ""]
KeyData(s) ==
  IF s = "claude"
  THEN { Unbound,
         [Unbound EXCEPT !.claudeAccountId = "o1"],
         [Unbound EXCEPT !.claudeConsoleAccountId = "c1"],
         [Unbound EXCEPT !.claudeAccountId = "o1", !.claudeConsoleAccountId = "c1"],
         [Unbound EXCEPT !.claudeAccountId = AbsentId],
         [Unbound EXCEPT !.claudeAccountId = "group:gClaude"],
         [Unbound EXCEPT !.claudeAccountId = "group:gMissing"] }
  ELSE { Unbound,
         [Unbound EXCEPT !.openaiAccountId = "p1"],
         [Unbound EXCEPT !.openaiAccountId = AbsentId],
         [Unbound EXCEPT !.openaiAccountId = "group:g1"],
         [Unbound EXCEPT !.openaiAccountId = "group:gOne"],
         [Unbound EXCEPT !.openaiAccountId = "group:gEmpty"],
         [Unbound EXCEPT !.openaiAccountId = "group:gClaude"],
         [Unbound EXCEPT !.openaiAccountId = "group:gMissing"] }

NoMapping == [accountId |-> "", accountType |-> "", exp |-> 0]

VARIABLES
  sched,   \* the scheduler instance the behaviour is about
  acct,    \* account records by id
  sess,    \* session mappings of the scheduler, by session hash
  now,     \* the clock
  ops,     \* store mutations performed so far
  pooled,  \* per hash, the pool choice an unbound key's session sticks to
  last     \* the call that has just returned

VARIABLES
  keys,          \* API-key records by id
  index,         \* the hash index: key id by hashed secret
  issued,        \* number of API keys generated so far
  usage,         \* per-key usage counters
  accountUsage,  \* per-account usage counters
  dailyCost,     \* per-key cost recorded today
  keyOps,        \* calls that changed the key store or the counters so far
  reply          \* the API-key service call or stats request that has just returned

keyVars == <<keys, index, issued, usage, accountUsage, dailyCost, keyOps, reply>>

VARIABLES
  rec,     \* the recordUsage call in progress, store operation by store operation
  gauge,   \* per-key concurrency gauge
  flight,  \* the admitted requests on their way to completion
  selects  \* the select calls in progress, between their reads and their write

procVars == <<rec, gauge, flight, selects>>

vars == <<sched, acct, sess, now, ops, pooled, last, keyVars, procVars>>


(* ------------------------- store collaborators ------------------------- *)

\* redis.getClaudeAccount(id): the record, or null for an id not stored.
HasClaudeAccount(id) == id \in ClaudeOAuthIds

\* claudeConsoleAccountService.getAccount(id)
HasConsoleAccount(id) == id \in ConsoleIds

\* openaiAccountService.getAccount(id)
HasOpenAIAccount(id) == id \in OpenAIIds

\* accountGroupService.getGroup(groupId): null for an unknown group.
HasGroup(g) == g \in GroupIds

\* accountGroupService.getGroupMembers(groupId)
GroupMembers(g) == IF g \in GroupIds THEN GroupStore[g].members ELSE {}

\* The orders in which the store may enumerate a set of ids.
Enumerations(S) ==
  { q \in [1..Cardinality(S) -> S] : \A i, j \in 1..Cardinality(S) : i # j => q[i] # q[j] }

ClaudeOrders == Enumerations(ClaudeOAuthIds \cup ConsoleIds)
OpenAIOrders == Enumerations(OpenAIIds)
OrdersOf(s) == IF s = "claude" THEN ClaudeOrders ELSE OpenAIOrders

\* The subsequence of an enumeration that lists the ids of S.
Listing(order, S) ==
  LET In(x) == x \in S IN SelectSeq(order, In)

\* Whether the account's rate-limit window is still open at time t.
WindowOpen(a, t) ==
  /\ a.rateLimitStatus = "limited"
  /\ a.rateLimitedAt # <<>>
  /\ t < a.rateLimitedAt[1] + LimitDuration

\* claudeAccountService / claudeConsoleAccountService .isAccountRateLimited
ClaudeIsAccountRateLimited(id) == WindowOpen(acct[id], now)

\* The read of a Claude account's rate-limit state clears it once the
\* window has passed.
ClearExpired(read) ==
  [ id \in AllIds |->
      IF id \in read /\ acct[id].rateLimitStatus = "limited" /\ ~WindowOpen(acct[id], now)
      THEN [acct[id] EXCEPT !.rateLimitStatus = "normal", !.rateLimitedAt = <<>>]
      ELSE acct[id] ]

\* claudeConsoleAccountService.isModelSupported(mapping, model)
IsModelSupported(supported, model) == model \in supported.models

(* --------------------------- session mapping --------------------------- *)

\* _getSessionMapping: the stored mapping, null once its TTL has run out.
GetSessionMapping(h) ==
  IF sess[h].accountId # "" /\ now < sess[h].exp THEN sess[h] ELSE NoMapping

\* A mapping stored with half the time to live.
SetSessionMappingShort(m, h, accountId, accountType) ==
  [m EXCEPT ![h] = [accountId |-> accountId, accountType |-> accountType,
                    exp |-> now + 1]]

\* _setSessionMapping: setex with a TTL of one hour.
SetSessionMapping(m, h, accountId, accountType) ==
  [m EXCEPT ![h] = [accountId |-> accountId, accountType |-> accountType,
                    exp |-> now + SessionTTL]]

\* _deleteSessionMapping
DeleteSessionMapping(m, h) == [m EXCEPT ![h] = NoMapping]

(* ------------------------------- ranking ------------------------------- *)

\* parseInt(account.priority) || 50
ParsePriority(p) ==
  IF p = <<>> THEN DefaultPriority
  ELSE IF p[1] = 0 THEN DefaultPriority
  ELSE p[1]

\* new Date(a.lastUsedAt || 0).getTime(), the candidate's lastUsedAt being
\* account.lastUsedAt || '0'.
DateGetTime(l) == IF l = <<>> THEN DateOfZeroString ELSE l[1]

\* The candidate record pushed to availableAccounts.
Candidate(id) ==
  [ accountId |-> id,
    accountType |-> TypeOf(id),
    priority |-> ParsePriority(acct[id].priority),
    lastUsedAt |-> acct[id].lastUsedAt ]

\* The comparator given to Array.prototype.sort.
Compare(a, b) ==
  IF a.priority # b.priority
  THEN a.priority - b.priority
  ELSE DateGetTime(a.lastUsedAt) - DateGetTime(b.lastUsedAt)

\* x put into the sorted sequence s behind every element not greater than it.
RECURSIVE InsertSorted(_, _)
InsertSorted(s, x) ==
  IF s = <<>> THEN <<x>>
  ELSE IF Compare(Head(s), x) > 0 THEN <<x>> \o s
  ELSE <<Head(s)>> \o InsertSorted(Tail(s), x)

\* _sortAccountsByPriority: Array.prototype.sort is stable.
RECURSIVE SortAccountsByPriority(_)
SortAccountsByPriority(accounts) ==
  IF accounts = <<>> THEN <<>>
  ELSE InsertSorted(SortAccountsByPriority(SubSeq(accounts, 1, Len(accounts) - 1)),
                    accounts[Len(accounts)])


(* --------------------------- a call's outcome -------------------------- *)

\* What a select call leaves behind: the account returned (or the error
\* thrown), the rule that produced it, the session map it leaves, and the
\* accounts whose rate-limit state it read.
Returned(id, type, rule, m, read) ==
  [accountId |-> id, accountType |-> type, rule |-> rule, err |-> "", sess |-> m, read |-> read]

Thrown(err, m, read) ==
  [accountId |-> "", accountType |-> "", rule |-> "", err |-> err, sess |-> m, read |-> read]

\* The error thrown for an empty candidate list: its message names the
\* requested model when one was given.
NoAvailableAccounts(requestedModel) ==
  IF requestedModel # NoModel THEN "NoAvailableAccountsForModel" ELSE "NoAvailableAccounts"

\* A selection that writes the mapping without testing the session hash: a
\* null hash ends up on a stored key.
SelectFirstUnguarded(available, h, m, read, rule) ==
  LET selectedAccount == SortAccountsByPriority(available)[1]
      written == IF h # "" THEN h ELSE CHOOSE x \in Hashes : TRUE
  IN  Returned(selectedAccount.accountId, selectedAccount.accountType, rule,
               SetSessionMapping(m, written, selectedAccount.accountId,
                                 selectedAccount.accountType),
               read)

\* The first of the sorted candidates, mapped to the session hash if one
\* was given.
SelectFirst(available, h, m, read, rule) ==
  LET selectedAccount == SortAccountsByPriority(available)[1]
  IN  Returned(selectedAccount.accountId, selectedAccount.accountType, rule,
               IF h # "" THEN SetSessionMapping(m, h, selectedAccount.accountId,
                                                selectedAccount.accountType)
               ELSE m,
               read)

(* ------------------------ unified Claude scheduler --------------------- *)

\* The condition under which the Claude OAuth binding is returned.
ClaudeBoundUsable(id) ==
  /\ id # ""
  /\ HasClaudeAccount(id)
  /\ acct[id].isActive
  /\ acct[id].status # "error"

\* The condition under which the Claude Console binding is returned.
ConsoleBoundUsable(id) ==
  /\ id # ""
  /\ HasConsoleAccount(id)
  /\ acct[id].isActive
  /\ acct[id].status = "active"

\* The static part of _isAccountAvailable, before the rate-limit read.
ClaudeAvailableStatic(accountId, accountType) ==
  IF accountType = "claude-official"
  THEN /\ HasClaudeAccount(accountId)
       /\ acct[accountId].isActive
       /\ acct[accountId].status # "error"
       /\ acct[accountId].schedulable
  ELSE IF accountType = "claude-console"
  THEN /\ HasConsoleAccount(accountId)
       /\ acct[accountId].isActive
       /\ acct[accountId].status = "active"
       /\ acct[accountId].schedulable
  ELSE FALSE

\* _isAccountAvailable of the Claude scheduler.
ClaudeIsAccountAvailable(accountId, accountType) ==
  /\ ClaudeAvailableStatic(accountId, accountType)
  /\ ~ClaudeIsAccountRateLimited(accountId)

\* The shared-pool test of a Claude OAuth account, before the rate-limit read.
OAuthPoolStatic(id) ==
  /\ acct[id].isActive
  /\ acct[id].status # "error"
  /\ acct[id].status # "blocked"
  /\ acct[id].accountType \in {"shared", ""}
  /\ acct[id].schedulable

\* Whether a Console account is skipped for not supporting the model.
ConsoleModelSkipped(id, requestedModel) ==
  LET sm == acct[id].supportedModels
  IN  /\ requestedModel # NoModel
      /\ sm.kind # "none"
      /\ \/ sm.kind = "list" /\ sm.models # {} /\ requestedModel \notin sm.models
         \/ sm.kind = "map" /\ sm.models # {} /\ ~IsModelSupported(sm, requestedModel)

\* The shared-pool test of a Claude Console account, before the rate-limit read.
ConsolePoolStatic(id, requestedModel) ==
  /\ acct[id].isActive
  /\ acct[id].status = "active"
  /\ acct[id].accountType = "shared"
  /\ acct[id].schedulable
  /\ ~ConsoleModelSkipped(id, requestedModel)

\* _getAllAvailableAccounts of the Claude scheduler: the candidates in the
\* order they are pushed, and the accounts whose rate-limit state was read.
ClaudeGetAllAvailableAccounts(apiKeyData, requestedModel, order) ==
  LET o == apiKeyData.claudeAccountId
      c == apiKeyData.claudeConsoleAccountId
      oOk == ClaudeBoundUsable(o) /\ acct[o].status # "blocked"
      cOk == ConsoleBoundUsable(c)
      oRead == IF oOk THEN {o} ELSE {}
      cRead == IF cOk THEN {c} ELSE {}
      OAuthOk(id) == OAuthPoolStatic(id)
      ConsoleOk(id) == ConsolePoolStatic(id, requestedModel)
      Free(id) == ~ClaudeIsAccountRateLimited(id)
      oauth == SelectSeq(Listing(order, ClaudeOAuthIds), OAuthOk)
      console == SelectSeq(Listing(order, ConsoleIds), ConsoleOk)
      pool == SelectSeq(oauth \o console, Free)
      poolRead == {oauth[i] : i \in 1..Len(oauth)} \cup {console[i] : i \in 1..Len(console)}
  IN  IF oOk /\ ~ClaudeIsAccountRateLimited(o)
      THEN [accounts |-> <<Candidate(o)>>, read |-> oRead]
      ELSE IF cOk /\ ~ClaudeIsAccountRateLimited(c)
      THEN [accounts |-> <<Candidate(c)>>, read |-> oRead \cup cRead]
      ELSE [accounts |-> [i \in 1..Len(pool) |-> Candidate(pool[i])],
            read |-> oRead \cup cRead \cup poolRead]

\* selectAccountForApiKey of the Claude scheduler, from the sticky-session
\* rule on.
ClaudeSelectUnbound(apiKeyData, h, requestedModel, order) ==
  LET mapped == IF h # "" THEN GetSessionMapping(h) ELSE NoMapping
      hasMapping == mapped.accountId # ""
      static == hasMapping /\ ClaudeAvailableStatic(mapped.accountId, mapped.accountType)
      sRead == IF static THEN {mapped.accountId} ELSE {}
      sticky == hasMapping /\ ClaudeIsAccountAvailable(mapped.accountId, mapped.accountType)
      m == IF hasMapping /\ ~sticky THEN DeleteSessionMapping(sess, h) ELSE sess
      all == ClaudeGetAllAvailableAccounts(apiKeyData, requestedModel, order)
  IN  IF sticky
      THEN Returned(mapped.accountId, mapped.accountType, "sticky", sess, sRead)
      ELSE IF all.accounts = <<>>
      THEN Thrown(NoAvailableAccounts(requestedModel), m, sRead \cup all.read)
      ELSE SelectFirst(all.accounts, h, m, sRead \cup all.read, "pool")

\* selectAccountForApiKey of the Claude scheduler.
ClaudeSelectAccountForApiKey(apiKeyData, h, requestedModel, order) ==
  IF ClaudeBoundUsable(apiKeyData.claudeAccountId)
  THEN Returned(apiKeyData.claudeAccountId, "claude-official", "bound", sess, {})
  ELSE IF ConsoleBoundUsable(apiKeyData.claudeConsoleAccountId)
  THEN Returned(apiKeyData.claudeConsoleAccountId, "claude-console", "bound", sess, {})
  ELSE ClaudeSelectUnbound(apiKeyData, h, requestedModel, order)


(* ------------------------ unified OpenAI scheduler --------------------- *)

\* _isSchedulable: undefined, null and everything but false / 'false' are
\* schedulable; the record holds the flag as a boolean.
IsSchedulable(schedulable) == schedulable

\* A rate-limit read whose window includes its last instant.
IsAccountRateLimitedInclusive(accountId) ==
  /\ HasOpenAIAccount(accountId)
  /\ acct[accountId].rateLimitStatus = "limited"
  /\ acct[accountId].rateLimitedAt # <<>>
  /\ now <= acct[accountId].rateLimitedAt[1] + LimitDuration

\* isAccountRateLimited of the OpenAI scheduler: a pure read.
IsAccountRateLimited(accountId) ==
  /\ HasOpenAIAccount(accountId)
  /\ WindowOpen(acct[accountId], now)

\* The condition under which the OpenAI binding is returned.
OpenAIBoundUsable(id) ==
  /\ id # ""
  /\ HasOpenAIAccount(id)
  /\ acct[id].isActive
  /\ acct[id].status # "error"

\* _isAccountAvailable of the OpenAI scheduler.
OpenAIIsAccountAvailable(accountId, accountType) ==
  /\ accountType = "openai"
  /\ HasOpenAIAccount(accountId)
  /\ acct[accountId].isActive
  /\ acct[accountId].status # "error"
  /\ IsSchedulable(acct[accountId].schedulable)
  /\ ~IsAccountRateLimited(accountId)

\* A model test that forgets that an empty list supports every model.
OpenAIModelSkippedWhenEmpty(id, requestedModel) ==
  LET sm == acct[id].supportedModels
  IN  /\ requestedModel # NoModel
      /\ sm.kind = "list"
      /\ requestedModel \notin sm.models

\* requestedModel && supportedModels && supportedModels.length > 0 &&
\* !supportedModels.includes(requestedModel); a mapping has no length.
OpenAIModelSkipped(id, requestedModel) ==
  LET sm == acct[id].supportedModels
  IN  /\ requestedModel # NoModel
      /\ sm.kind = "list"
      /\ sm.models # {}
      /\ requestedModel \notin sm.models

\* The tests a pool or group member passes after the status tests: token
\* usable, model supported, not rate-limited.
OpenAIMemberUsable(id, requestedModel) ==
  /\ acct[id].tokenUsable
  /\ ~OpenAIModelSkipped(id, requestedModel)
  /\ ~IsAccountRateLimited(id)

\* The shared-pool test of an OpenAI account.
OpenAIPoolUsable(id, requestedModel) ==
  /\ acct[id].isActive
  /\ acct[id].status # "error"
  /\ acct[id].accountType \in {"shared", ""}
  /\ IsSchedulable(acct[id].schedulable)
  /\ OpenAIMemberUsable(id, requestedModel)

\* The test of a group member in selectAccountFromGroup.
OpenAIGroupUsable(id, requestedModel) ==
  /\ HasOpenAIAccount(id)
  /\ acct[id].isActive
  /\ acct[id].status # "error"
  /\ IsSchedulable(acct[id].schedulable)
  /\ OpenAIMemberUsable(id, requestedModel)

\* _getAllAvailableAccounts of the OpenAI scheduler.
OpenAIGetAllAvailableAccounts(apiKeyData, requestedModel, order) ==
  LET b == apiKeyData.openaiAccountId
      bOk == OpenAIBoundUsable(b) /\ ~IsAccountRateLimited(b)
      Ok(id) == OpenAIPoolUsable(id, requestedModel)
      pool == SelectSeq(Listing(order, OpenAIIds), Ok)
  IN  IF bOk
      THEN IF OpenAIModelSkipped(b, requestedModel) THEN <<>> ELSE <<Candidate(b)>>
      ELSE [i \in 1..Len(pool) |-> Candidate(pool[i])]

\* _isAccountInGroup
IsAccountInGroup(accountId, groupId) == accountId \in GroupMembers(groupId)

\* selectAccountFromGroup
SelectAccountFromGroup(groupId, h, requestedModel, order) ==
  LET mapped == IF h # "" THEN GetSessionMapping(h) ELSE NoMapping
      hasMapping == mapped.accountId # ""
      sticky == /\ hasMapping
                /\ IsAccountInGroup(mapped.accountId, groupId)
                /\ OpenAIIsAccountAvailable(mapped.accountId, mapped.accountType)
      m == IF hasMapping /\ ~sticky THEN DeleteSessionMapping(sess, h) ELSE sess
      Ok(id) == OpenAIGroupUsable(id, requestedModel)
      memberIds == Listing(order, GroupMembers(groupId))
      members == SelectSeq(memberIds, Ok)
      available == [i \in 1..Len(members) |-> Candidate(members[i])]
  IN  IF ~HasGroup(groupId) THEN Thrown("GroupNotFound", sess, {})
      ELSE IF GroupStore[groupId].platform # "openai" THEN Thrown("GroupNotOpenAI", sess, {})
      ELSE IF sticky THEN Returned(mapped.accountId, mapped.accountType, "group-sticky", sess, {})
      ELSE IF memberIds = <<>> THEN Thrown("GroupNoMembers", m, {})
      ELSE IF available = <<>> THEN Thrown("NoAvailableInGroup", m, {})
      ELSE SelectFirst(available, h, m, {}, "group")

\* A selection that never looks the session mapping up.
OpenAISelectUnboundNoSticky(apiKeyData, h, requestedModel, order) ==
  LET available == OpenAIGetAllAvailableAccounts(apiKeyData, requestedModel, order)
  IN  IF available = <<>>
      THEN Thrown(NoAvailableAccounts(requestedModel), sess, {})
      ELSE SelectFirst(available, h, sess, {}, "pool")

\* A selection that writes the mapping again when it reuses it.
OpenAISelectUnboundRefreshing(apiKeyData, h, requestedModel, order) ==
  LET mapped == IF h # "" THEN GetSessionMapping(h) ELSE NoMapping
      hasMapping == mapped.accountId # ""
      sticky == hasMapping /\ OpenAIIsAccountAvailable(mapped.accountId, mapped.accountType)
      m == IF hasMapping /\ ~sticky THEN DeleteSessionMapping(sess, h) ELSE sess
      available == OpenAIGetAllAvailableAccounts(apiKeyData, requestedModel, order)
  IN  IF sticky
      THEN Returned(mapped.accountId, mapped.accountType, "sticky",
                    SetSessionMapping(sess, h, mapped.accountId, mapped.accountType), {})
      ELSE IF available = <<>>
      THEN Thrown(NoAvailableAccounts(requestedModel), m, {})
      ELSE SelectFirst(available, h, m, {}, "pool")

\* selectAccountForApiKey of the OpenAI scheduler, from the sticky-session
\* rule on.
OpenAISelectUnbound(apiKeyData, h, requestedModel, order) ==
  LET mapped == IF h # "" THEN GetSessionMapping(h) ELSE NoMapping
      hasMapping == mapped.accountId # ""
      sticky == hasMapping /\ OpenAIIsAccountAvailable(mapped.accountId, mapped.accountType)
      m == IF hasMapping /\ ~sticky THEN DeleteSessionMapping(sess, h) ELSE sess
      available == OpenAIGetAllAvailableAccounts(apiKeyData, requestedModel, order)
  IN  IF sticky
      THEN Returned(mapped.accountId, mapped.accountType, "sticky", sess, {})
      ELSE IF available = <<>>
      THEN Thrown(NoAvailableAccounts(requestedModel), m, {})
      ELSE SelectFirst(available, h, m, {}, "pool")

\* "group:<id>" bindings of the modelled keys and the group id they name.
GroupOfBinding(b) ==
  IF b = "group:g1" THEN "g1"
  ELSE IF b = "group:gOne" THEN "gOne"
  ELSE IF b = "group:gEmpty" THEN "gEmpty"
  ELSE IF b = "group:gClaude" THEN "gClaude"
  ELSE IF b = "group:gMissing" THEN "gMissing"
  ELSE ""

\* A selection that tries the sticky session before the binding.
OpenAISelectStickyBeforeBound(apiKeyData, h, requestedModel, order) ==
  LET b == apiKeyData.openaiAccountId
      mapped == IF h # "" THEN GetSessionMapping(h) ELSE NoMapping
  IN  IF GroupOfBinding(b) # ""
      THEN SelectAccountFromGroup(GroupOfBinding(b), h, requestedModel, order)
      ELSE IF mapped.accountId # ""
              /\ OpenAIIsAccountAvailable(mapped.accountId, mapped.accountType)
      THEN Returned(mapped.accountId, mapped.accountType, "sticky", sess, {})
      ELSE IF OpenAIBoundUsable(b)
      THEN Returned(b, "openai", "bound", sess, {})
      ELSE OpenAISelectUnbound(apiKeyData, h, requestedModel, order)

\* selectAccountForApiKey of the OpenAI scheduler.
OpenAISelectAccountForApiKey(apiKeyData, h, requestedModel, order) ==
  LET b == apiKeyData.openaiAccountId
  IN  IF GroupOfBinding(b) # ""
      THEN SelectAccountFromGroup(GroupOfBinding(b), h, requestedModel, order)
      ELSE IF OpenAIBoundUsable(b)
      THEN Returned(b, "openai", "bound", sess, {})
      ELSE OpenAISelectUnbound(apiKeyData, h, requestedModel, order)


(* ---------------------------- the key store ---------------------------- *)

\* Ids (uuidv4) in the order generateApiKey draws them.
KeyIds == <<"k1", "k2">>
KeyIdSet == {KeyIds[i] : i \in 1..Len(KeyIds)}

\* config.security.apiKeyPrefix and config.security.encryptionKey
ApiKeyPrefix == "cr_"
EncryptionKey == "pepper"

\* _generateSecretKey: the i-th draw of crypto.randomBytes(32).
GenerateSecretKey(i) == IF i = 1 THEN "s1" ELSE "s2"

\* A presented API key: its prefix and the rest of the string.
ApiKeyString(prefix, secret) == [prefix |-> prefix, secret |-> secret]

\* A hash that does not depend on the secret part of the key.
HashApiKeyIgnoringSecret(apiKey) == <<"sha256", apiKey.prefix, "", EncryptionKey>>

\* _hashApiKey: SHA-256 of apiKey + encryptionKey, taken as collision-free.
HashApiKey(apiKey) == <<"sha256", apiKey.prefix, apiKey.secret, EncryptionKey>>

\* The counters of a key or an account.
ZeroUsage ==
  [ requests |-> 0, inputTokens |-> 0, outputTokens |-> 0,
    cacheCreateTokens |-> 0, cacheReadTokens |-> 0, allTokens |-> 0 ]

\* The accounts usage is recorded for.
UsageAccounts == {"p1", "p2"}

\* The account the calls made on behalf of no scheduled request name.
RecordedAccounts == {"p1"}

\* The API keys a client may present: the generated ones, a well-formed one
\* that was never generated, and one without the prefix.
PresentedKeys ==
  { ApiKeyString(ApiKeyPrefix, "s1"), ApiKeyString(ApiKeyPrefix, "s2"),
    ApiKeyString(ApiKeyPrefix, "sx"), ApiKeyString("", "s1") }
PresentedHashes == { HashApiKey(k) : k \in PresentedKeys }

\* redis.getApiKey(id) of an id without a record: {}.
NoKey == [id |-> ""]

\* The callers of the scheduler and the requests the model follows.
Callers == {1, 2}
Requests == {1, 2}

NoRecord == [pc |-> "idle"]
NoFlight == [phase |-> "none"]
NoCall == [pc |-> "idle"]

\* No call and no request is in progress.
NothingInProgress ==
  /\ rec = NoRecord
  /\ gauge = [k \in KeyIdSet |-> 0]
  /\ flight = [r \in Requests |-> NoFlight]
  /\ selects = [c \in Callers |-> NoCall]

\* The store before any API key was generated.
KeyStoreEmpty ==
  /\ keys = [k \in KeyIdSet |-> NoKey]
  /\ index = [h \in PresentedHashes |-> ""]
  /\ issued = 0
  /\ usage = [k \in KeyIdSet |-> ZeroUsage]
  /\ accountUsage = [a \in UsageAccounts |-> ZeroUsage]
  /\ dailyCost = [k \in KeyIdSet |-> 0]
  /\ keyOps = 0
  /\ reply = [op |-> "none"]
  /\ NothingInProgress

(* ------------------------------- actions ------------------------------- *)

\* No call has just returned.
Idle ==
  [ op |-> "none", key |-> Unbound, h |-> "", model |-> NoModel,
    accountId |-> "", accountType |-> "", rule |-> "", err |-> "",
    before |-> [h \in Hashes |-> NoMapping],
    stuck |-> [h \in Hashes |-> NoMapping] ]

\* The record of the sticky choices made through the shared pool for an
\* unbound key: kept while the account stays active, schedulable, not
\* errored and not rate-limited, and for the mapping's time to live.
StaysUsable(a, t) ==
  /\ a.isActive
  /\ a.status = "active"
  /\ a.schedulable
  /\ a.accountType \in {"shared", ""}
  /\ ~WindowOpen(a, t)

Keep(p, a, t) ==
  [ h \in Hashes |->
      IF p[h].accountId # "" /\ t < p[h].exp /\ StaysUsable(a[p[h].accountId], t)
      THEN p[h] ELSE NoMapping ]

\* Redis drops a mapping when its TTL has run out.
Expire(m, t) ==
  [ h \in Hashes |-> IF m[h].accountId # "" /\ t < m[h].exp THEN m[h] ELSE NoMapping ]

Init ==
  /\ sched \in Schedulers
  /\ acct = [id \in AllIds |-> DefaultAccount]
  /\ sess = [h \in Hashes |-> NoMapping]
  /\ pooled = [h \in Hashes |-> NoMapping]
  /\ now = 1
  /\ ops = 0
  /\ last = Idle
  /\ KeyStoreEmpty

\* A request is scheduled: selectAccountForApiKey(apiKeyData, sessionHash,
\* requestedModel), the store enumerating its accounts in some order.
Select ==
  /\ last = Idle
  /\ \E key \in KeyData(sched), h \in Hashes \cup {""}, model \in Models \cup {NoModel},
        order \in OrdersOf(sched) :
    LET out == IF sched = "claude"
               THEN ClaudeSelectAccountForApiKey(key, h, model, order)
               ELSE OpenAISelectAccountForApiKey(key, h, model, order)
        acct2 == IF sched = "claude" THEN ClearExpired(out.read) ELSE acct
        pooled2 == IF out.rule = "pool" /\ key = Unbound /\ h # ""
                   THEN [pooled EXCEPT ![h] = out.sess[h]]
                   ELSE pooled
    IN  /\ sess' = out.sess
        /\ acct' = acct2
        /\ pooled' = Keep(pooled2, acct2, now)
        /\ last' = [ op |-> "select", key |-> key, h |-> h, model |-> model,
                     accountId |-> out.accountId, accountType |-> out.accountType,
                     rule |-> out.rule, err |-> out.err,
                     before |-> Expire(sess, now), stuck |-> pooled ]
        /\ UNCHANGED <<sched, now, ops, keyVars, procVars>>

\* The caller takes the result of the call.
Return ==
  /\ last # Idle
  /\ last' = Idle
  /\ UNCHANGED <<sched, acct, sess, now, ops, pooled, keyVars, procVars>>

\* An admin edits one attribute of an account.
Edited(a, field, v) ==
  /\ last = Idle
  /\ ops < MaxOps
  /\ acct[a][field] # v
  /\ acct' = [acct EXCEPT ![a] = [acct[a] EXCEPT ![field] = v]]
  /\ pooled' = Keep(pooled, acct', now)
  /\ ops' = ops + 1
  /\ last' = Idle
  /\ UNCHANGED <<sched, sess, now, keyVars, procVars>>

UpdateAccount ==
  \E a \in IdsOf(sched) :
    \/ \E v \in BOOLEAN : Edited(a, "isActive", v)
    \/ \E v \in Statuses : Edited(a, "status", v)
    \/ \E v \in {"shared", "dedicated", ""} : Edited(a, "accountType", v)
    \/ \E v \in BOOLEAN : Edited(a, "schedulable", v)
    \/ \E v \in Priorities : Edited(a, "priority", <<v>>)
    \/ \E v \in SupportedModelsValues :
         /\ a \notin ClaudeOAuthIds
         /\ v.kind = "map" => a \in ConsoleIds
         /\ Edited(a, "supportedModels", v)
    \/ \E v \in BOOLEAN : a \in OpenAIIds /\ Edited(a, "tokenUsable", v)

\* updateAccountLastUsed(accountId, accountType): lastUsedAt becomes now.
UpdateAccountLastUsed ==
  \E a \in IdsOf(sched) : Edited(a, "lastUsedAt", <<now>>)

\* setAccountRateLimited(accountId, true) / markAccountRateLimited(accountId)
\* of the account services.
Limited(a) == [a EXCEPT !.rateLimitStatus = "limited", !.rateLimitedAt = <<now>>]

\* An accountType the scheduler does not recognise.
OtherType == "other"

\* markAccountRateLimited(accountId, accountType, sessionHash): the account
\* service marks the account if the scheduler recognises accountType, then
\* the mapping of the hash is deleted; a failure of the account service is
\* thrown before the mapping is touched.
MarkAccountRateLimited ==
  \E a \in IdsOf(sched), known \in BOOLEAN, h \in Hashes \cup {""}, fails \in BOOLEAN :
    LET t == IF known THEN TypeOf(a) ELSE OtherType
        thrown == known /\ fails
    IN  /\ last = Idle
        /\ ops < MaxOps
        /\ acct' = IF known /\ ~thrown THEN [acct EXCEPT ![a] = Limited(acct[a])] ELSE acct
        /\ sess' = IF h # "" /\ ~thrown THEN DeleteSessionMapping(sess, h) ELSE sess
        /\ pooled' = Keep(pooled, acct', now)
        /\ ops' = ops + 1
        /\ last' = [ op |-> "mark", key |-> Unbound, h |-> h, model |-> NoModel,
                     accountId |-> a, accountType |-> t, rule |-> "",
                     err |-> IF thrown THEN "MarkFailed" ELSE "",
                     before |-> Expire(sess, now), stuck |-> pooled ]
        /\ UNCHANGED <<sched, now, keyVars, procVars>>

\* removeAccountRateLimit(accountId, accountType)
RemoveAccountRateLimit ==
  \E a \in IdsOf(sched) :
    /\ last = Idle
    /\ acct[a].rateLimitStatus = "limited"
    /\ acct' = [acct EXCEPT ![a] = [acct[a] EXCEPT !.rateLimitStatus = "normal",
                                                    !.rateLimitedAt = <<>>]]
    /\ pooled' = Keep(pooled, acct', now)
    /\ last' = Idle
    /\ UNCHANGED <<sched, sess, now, ops, keyVars, procVars>>

\* Time passes.
Tick ==
  /\ last = Idle
  /\ now < MaxClock
  /\ now' = now + 1
  /\ sess' = Expire(sess, now')
  /\ pooled' = Keep(pooled, acct, now')
  /\ last' = Idle
  /\ UNCHANGED <<sched, acct, ops, keyVars, procVars>>

Next ==
  \/ Select
  \/ Return
  \/ UpdateAccount
  \/ UpdateAccountLastUsed
  \/ MarkAccountRateLimited
  \/ RemoveAccountRateLimit
  \/ Tick

Spec == Init /\ [][Next]_vars


(* ------------------- the vocabulary of the properties ------------------ *)

\* The key is bound to the account.
Binds(key, id) ==
  /\ id # ""
  /\ id \in {key.claudeAccountId, key.claudeConsoleAccountId, key.openaiAccountId}

\* modelSupported(requestedModel): no model asked, an empty or absent
\* supportedModels, or one that names the model.
ModelSupported(a, model) ==
  \/ model = NoModel
  \/ a.supportedModels.models = {}
  \/ model \in a.supportedModels.models

\* The eligibility predicate of the data model, at the current time.
Eligible(id, key, model) ==
  /\ id \in AllIds
  /\ acct[id].isActive
  /\ acct[id].status = "active"
  /\ acct[id].schedulable
  /\ ~WindowOpen(acct[id], now)
  /\ acct[id].accountType \in {"shared", ""} \/ Binds(key, id)
  /\ ModelSupported(acct[id], model)

\* The individual account the key's first binding names, "" if none.
FirstBinding(key) ==
  IF key.claudeAccountId # "" THEN key.claudeAccountId
  ELSE IF key.claudeConsoleAccountId # "" THEN key.claudeConsoleAccountId
  ELSE IF GroupOfBinding(key.openaiAccountId) = "" THEN key.openaiAccountId
  ELSE ""

\* The accounts ranking chooses among for the key: the members of its
\* group, or every account of the scheduler.
CandidateIds(key) ==
  LET g == GroupOfBinding(key.openaiAccountId)
  IN  IF g = "" THEN IdsOf(sched)
      ELSE IF HasGroup(g) /\ GroupStore[g].platform = "openai" THEN GroupMembers(g)
      ELSE {}

\* The eligible candidates of a ranking: shared accounts with a usable token.
RankCandidates(key, model) ==
  { id \in CandidateIds(key) :
      /\ Eligible(id, key, model)
      /\ acct[id].accountType = "shared"
      /\ acct[id].tokenUsable }

\* The priority an account is given, an unset one counting as 50.
RawPriority(id) ==
  IF acct[id].priority = <<>> THEN DefaultPriority ELSE acct[id].priority[1]

IdRank(id) == CHOOSE i \in 1..Len(IdOrder) : IdOrder[i] = id

Selected == last.op = "select" /\ last.accountId # ""
Ranked == Selected /\ last.rule \in {"pool", "group"}

(* ------------------------------ properties ----------------------------- *)

\* C1: every account a select call returns, through any rule, satisfies the
\* eligibility predicate in the store state at the time of return.
C1_ReturnedAccountEligible ==
  Selected => Eligible(last.accountId, last.key, last.model)

\* C2: the dedicated-binding rule returns the bound account only if it is
\* not rate-limited and supports the requested model.
C2_BoundRuleChecksLimitAndModel ==
  Selected /\ last.rule = "bound" =>
    /\ ~WindowOpen(acct[last.accountId], now)
    /\ ModelSupported(acct[last.accountId], last.model)

\* C3 (as stated): once a select call with hash h has returned A from the
\* pool for an unbound key, every later select call with h for an unbound
\* key, within the mapping's TTL and with A eligible throughout, returns A.
C3_StickyWhileEligible ==
  LET a == IF last.h = "" THEN "" ELSE last.stuck[last.h].accountId
  IN  /\ last.op = "select"
      /\ last.key = Unbound
      /\ a # ""
      /\ Eligible(a, last.key, last.model)
      => last.accountId = a

\* C3 (amended): a select call with hash h for an unbound key returns the
\* account A that h is mapped to whenever the mapping is still stored and A
\* is eligible, whatever the ranking of the other accounts; and a select
\* call that returns an account from the pool stores the mapping h -> A
\* with the full TTL.
C3_StickyWhileMapped ==
  last.op = "select" /\ last.key = Unbound /\ last.h # "" =>
    LET b == last.before[last.h]
    IN  /\ b.accountId # "" /\ Eligible(b.accountId, last.key, last.model) =>
             last.accountId = b.accountId /\ last.rule = "sticky"
        /\ last.rule = "pool" =>
             sess[last.h] = [accountId |-> last.accountId,
                             accountType |-> last.accountType,
                             exp |-> now + SessionTTL]

\* C3 witness: a sticky return of an account that another eligible account
\* outranks.
C3_Witness ==
  /\ Selected
  /\ last.key = Unbound
  /\ last.rule = "sticky"
  /\ \E c \in RankCandidates(last.key, last.model) :
       Compare(Candidate(c), Candidate(last.accountId)) < 0

\* C4: a select call whose hash is mapped to an account that is no longer
\* eligible does not return that account, and leaves the hash mapped to the
\* account it returns, never to the ineligible one.
C4_StaleMappingReplaced ==
  LET b == IF last.h = "" THEN "" ELSE last.before[last.h].accountId
  IN  /\ last.op = "select"
      /\ last.key = Unbound
      /\ b # ""
      /\ ~Eligible(b, last.key, last.model)
      => /\ last.accountId # b
         /\ sess[last.h].accountId # b
         /\ last.accountId # "" => sess[last.h].accountId = last.accountId

\* C5: the sticky-session rule returns the mapped account only if it
\* supports the requested model.
C5_StickyChecksModel ==
  Selected /\ last.rule \in {"sticky", "group-sticky"} =>
    ModelSupported(acct[last.accountId], last.model)

\* C6: for a key whose first binding names an eligible individual account
\* A1, a select call with a hash mapped to another account A2 returns A1
\* and leaves the session map as it was, TTL included.
C6_BoundLeavesSessionMap ==
  LET a1 == FirstBinding(last.key)
      a2 == IF last.h = "" THEN "" ELSE last.before[last.h].accountId
  IN  /\ last.op = "select"
      /\ a1 # ""
      /\ Eligible(a1, last.key, last.model)
      /\ a2 # ""
      /\ a2 # a1
      => /\ last.accountId = a1
         /\ sess = last.before

\* C6 witness: a bound account returned while the hash is mapped elsewhere.
C6_Witness ==
  /\ Selected
  /\ last.rule = "bound"
  /\ last.h # ""
  /\ Eligible(last.accountId, last.key, last.model)
  /\ last.before[last.h].accountId \notin {"", last.accountId}

\* C7: ranking returns an account of the smallest priority among the
\* eligible candidates, 0 included, an unset priority counting as 50.
C7_SmallestPriorityWins ==
  Ranked =>
    \A c \in RankCandidates(last.key, last.model) :
      RawPriority(last.accountId) <= RawPriority(c)

\* C8: among the eligible candidates of minimum priority, ranking returns
\* the least recently used one, a never-used account first.
C8_LeastRecentlyUsedWins ==
  LET cands == RankCandidates(last.key, last.model)
      best == { c \in cands : \A d \in cands : RawPriority(c) <= RawPriority(d) }
  IN  Ranked /\ last.accountId \in cands =>
        /\ last.accountId \in best
        /\ \A c \in best :
             DateGetTime(acct[last.accountId].lastUsedAt) <= DateGetTime(acct[c].lastUsedAt)

\* C9: among eligible candidates equal in priority and lastUsedAt, ranking
\* returns the one with the smallest id.
C9_SmallestIdBreaksTies ==
  LET cands == RankCandidates(last.key, last.model)
  IN  Ranked /\ last.accountId \in cands =>
        \A c \in cands :
          /\ RawPriority(c) = RawPriority(last.accountId)
          /\ acct[c].lastUsedAt = acct[last.accountId].lastUsedAt
          => IdRank(last.accountId) <= IdRank(c)

GroupOfKey(key) ==
  IF GroupOfBinding(key.claudeAccountId) # "" THEN GroupOfBinding(key.claudeAccountId)
  ELSE IF GroupOfBinding(key.claudeConsoleAccountId) # ""
  THEN GroupOfBinding(key.claudeConsoleAccountId)
  ELSE GroupOfBinding(key.openaiAccountId)

\* The platform of the scheduler's accounts.
PlatformOf(s) == IF s = "claude" THEN "claude" ELSE "openai"

\* An empty or mismatched group: missing, of another platform, or without
\* members.
GroupMisconfigured(g) ==
  \/ ~HasGroup(g)
  \/ GroupStore[g].platform # PlatformOf(sched)
  \/ GroupMembers(g) = {}

\* The errors of the two failure modes.
NoAvailableErrors == {"NoAvailableAccounts", "NoAvailableAccountsForModel", "NoAvailableInGroup"}
GroupErrors == {"GroupNotFound", "GroupNotOpenAI", "GroupNoMembers"}

\* The accounts some rule may yield for the key: the members of its group,
\* or every account of the scheduler.
RuleCandidates(key) ==
  IF GroupOfKey(key) = "" THEN IdsOf(sched)
  ELSE IF GroupMisconfigured(GroupOfKey(key)) THEN {}
  ELSE GroupMembers(GroupOfKey(key)) \cap IdsOf(sched)

\* An eligible account whose token is usable.
Usable(id, key, model) == Eligible(id, key, model) /\ acct[id].tokenUsable

\* The key's individual binding names an account absent from the store.
BoundToAbsent(key) ==
  /\ GroupOfKey(key) = ""
  /\ AbsentId \in {key.claudeAccountId, key.claudeConsoleAccountId, key.openaiAccountId}

\* The ids of the candidates _getAllAvailableAccounts lists for a key.
PoolIds(key, model, order) ==
  LET accounts == IF sched = "claude"
                  THEN ClaudeGetAllAvailableAccounts(key, model, order).accounts
                  ELSE OpenAIGetAllAvailableAccounts(key, model, order)
  IN  { accounts[i].accountId : i \in 1..Len(accounts) }

\* C11: select fails with NoAvailableAccounts, its message naming the
\* requested model when one was given, exactly when no rule yields an
\* eligible account for the key; it then returns no account and leaves the
\* session hash unmapped.
C11_NoAvailableAccountsExactly ==
  last.op = "select" /\ last.err \notin GroupErrors =>
    /\ last.err \in NoAvailableErrors <=>
         ~\E id \in RuleCandidates(last.key) : Usable(id, last.key, last.model)
    /\ last.err \in NoAvailableErrors =>
         /\ last.accountId = ""
         /\ last.h # "" => sess[last.h] = NoMapping
         /\ last.model # NoModel <=> last.err = "NoAvailableAccountsForModel"

\* C12: for a key bound to a group that is missing, of another platform or
\* without members, select fails and returns no account, from the shared
\* pool or otherwise.
C12_MisconfiguredGroupFails ==
  /\ last.op = "select"
  /\ GroupOfKey(last.key) # ""
  /\ GroupMisconfigured(GroupOfKey(last.key))
  => /\ last.err \in GroupErrors
     /\ last.accountId = ""

\* C13: for a key whose individual binding names an absent account, select
\* returns an eligible account whenever the shared pool holds one.
C13_AbsentBindingFallsThrough ==
  /\ last.op = "select"
  /\ BoundToAbsent(last.key)
  /\ \E id \in IdsOf(sched) : Usable(id, Unbound, last.model)
  => /\ last.err = ""
     /\ Usable(last.accountId, last.key, last.model)

\* C14: every account returned to a key bound to a group is a member of
\* that group, and a session mapping to an account outside the group (the
\* group having members of the scheduler's platform) is deleted, not
\* returned.
C14_GroupKeyGetsGroupMember ==
  LET g == GroupOfKey(last.key)
      b == IF last.h = "" THEN "" ELSE last.before[last.h].accountId
  IN  last.op = "select" /\ g # "" =>
        /\ last.accountId # "" => last.accountId \in GroupMembers(g)
        /\ b # "" /\ b \notin GroupMembers(g) /\ ~GroupMisconfigured(g) =>
             /\ last.accountId # b
             /\ sess[last.h].accountId # b

\* C15: the shared pool lists every account that is eligible for an
\* unbound key, its accountType being 'shared' or unset, whatever its
\* variant.
C15_PoolHoldsSharedAndUnset ==
  \A id \in IdsOf(sched), model \in Models \cup {NoModel}, order \in OrdersOf(sched) :
    Usable(id, Unbound, model) => id \in PoolIds(Unbound, model, order)

\* C16: a dedicated account is returned only to a key bound to it.
C16_DedicatedOnlyToItsKey ==
  Selected /\ acct[last.accountId].accountType = "dedicated" =>
    Binds(last.key, last.accountId)

\* C17: no select call returns an account whose schedulable flag is false.
C17_UnschedulableNeverReturned ==
  Selected => acct[last.accountId].schedulable

(* ------------------------ time to live and windows --------------------- *)

StickyRules == {"sticky", "group-sticky"}

\* C18: a sticky return leaves the mapping as it was, its expiry included:
\* the reuse happens before the expiry set at creation and does not move
\* it.
C18_ReuseKeepsExpiry ==
  Selected /\ last.rule \in StickyRules =>
    /\ sess[last.h] = last.before[last.h]
    /\ now < last.before[last.h].exp
    /\ last.before[last.h].exp <= now + SessionTTL

\* C18 witness: a mapping reused later than it was created, with less than
\* the full TTL left after the call.
C18_Witness ==
  /\ Selected
  /\ last.rule \in StickyRules
  /\ sess[last.h].exp < now + SessionTTL

\* C19 (as stated): after a sticky return the mapping has the full TTL left.
C19_ReuseRefreshesMapping ==
  Selected /\ last.rule \in StickyRules =>
    sess[last.h].exp = now + SessionTTL

\* C19 (amended): select writes the mapping of the hash when it returns an
\* account through ranking, with the full TTL; a sticky return keeps the
\* mapping to the returned account with the expiry it had.
C19_RankingWritesMapping ==
  Selected /\ last.h # "" =>
    /\ last.rule \in {"pool", "group"} =>
         sess[last.h] = [accountId |-> last.accountId,
                         accountType |-> last.accountType,
                         exp |-> now + SessionTTL]
    /\ last.rule \in StickyRules =>
         /\ sess[last.h].accountId = last.accountId
         /\ sess[last.h].exp = last.before[last.h].exp

\* C19 witness: ranking replaces the mapping to an account that has become
\* unavailable by a fresh one.
C19_Witness ==
  /\ Ranked
  /\ last.h # ""
  /\ last.before[last.h].accountId \notin {"", last.accountId}
  /\ sess[last.h].exp = now + SessionTTL

\* C20: the pool, group and sticky rules never return an account whose
\* rate-limit window is open (now < rateLimitedAt + 3600 s); once the
\* window has passed, an account still flagged 'limited' is a candidate
\* again without any clear, so a call that reaches ranking with such a
\* candidate returns an account.
C20_LimitedWhileWindowOpen ==
  last.op = "select" =>
    /\ Selected /\ last.rule # "bound" => ~WindowOpen(acct[last.accountId], now)
    /\ /\ last.rule \notin {"bound"} \cup StickyRules
       /\ \E id \in RankCandidates(last.key, last.model) :
            acct[id].rateLimitStatus = "limited"
       => Ranked

\* C20 witness: ranking returns an account flagged 'limited' at the instant
\* its window ends.
C20_Witness ==
  /\ Ranked
  /\ acct[last.accountId].rateLimitStatus = "limited"
  /\ now = acct[last.accountId].rateLimitedAt[1] + LimitDuration

(* --------------------------- rate-limit marks -------------------------- *)

\* What selectAccountForApiKey returns in the current state.
SelectOutcome(key, h, model, order) ==
  IF sched = "claude"
  THEN ClaudeSelectAccountForApiKey(key, h, model, order)
  ELSE OpenAISelectAccountForApiKey(key, h, model, order)

\* C21: an account that the pool, group or sticky rule returns has had its
\* rate-limit state read at a time no earlier than the end of its window,
\* and is no longer stored as 'limited' after the call.
C21_ReadClearsExpiredLimit ==
  Selected /\ last.rule # "bound" =>
    acct[last.accountId].rateLimitStatus # "limited"

\* C22: after markAccountRateLimited has returned success, the account is
\* stored as limited since now, the hash has no mapping, and a select call
\* with that hash does not return the account; after it has thrown, the
\* session map is as it was.
C22_MarkLimitsAndUnmaps ==
  last.op = "mark" =>
    /\ last.err = "" =>
         /\ acct[last.accountId].rateLimitStatus = "limited"
         /\ acct[last.accountId].rateLimitedAt = <<now>>
         /\ last.h # "" =>
              /\ sess[last.h] = NoMapping
              /\ \A key \in KeyData(sched), model \in Models \cup {NoModel},
                    order \in OrdersOf(sched) :
                   SelectOutcome(key, last.h, model, order).accountId # last.accountId
    /\ last.err # "" => sess = last.before

(* --------------------------- the API-key service ----------------------- *)

\* Number of calls that change the key store or the counters in one
\* behaviour.
MaxKeyOps == 2

\* String(isActive) at generation, value.toString() at update.
BoolToString(b) == IF b THEN "true" ELSE "false"

\* expiresAt values: '' (never), or an ISO instant.
ExpiresAtValues == {<<>>} \cup {<<t>> : t \in 1..MaxClock}

KeyNames == {"a", "b"}

\* dailyCostLimit of a new key, in the unit of the price table; 0 is no limit.
DailyCostLimits == {0, 3}

\* redis.setApiKey(keyId, keyData, hashedKey): the record is written, and
\* the hash is indexed when one is given.
SetApiKey(ks, keyId, keyData) == [ks EXCEPT ![keyId] = keyData]
SetHashIndex(ix, hashedKey, keyId) == [ix EXCEPT ![hashedKey] = keyId]

\* redis.findApiKeyByHash(hashedKey): the record the index leads to, or null.
FindApiKeyByHash(hashedKey) ==
  IF index[hashedKey] = "" THEN NoKey ELSE keys[index[hashedKey]]

\* redis.deleteApiKey(keyId): the record and its index entry.
DeleteFromIndex(ix, keyId) == [h \in PresentedHashes |-> IF ix[h] = keyId THEN "" ELSE ix[h]]

\* No call has just returned.
NoReply == [op |-> "none"]

\* Everything the scheduler owns stays as it is.
SchedulerUnchanged == UNCHANGED <<sched, acct, sess, ops, pooled, last, procVars>>

\* generateApiKey(options)
NewKeyData(n, isActive, expiresAt, dailyCostLimit) ==
  [ id |-> KeyIds[n], name |-> "a",
    apiKey |-> HashApiKey(ApiKeyString(ApiKeyPrefix, GenerateSecretKey(n))),
    isActive |-> BoolToString(isActive),
    expiresAt |-> expiresAt, lastUsedAt |-> <<>>,
    dailyCostLimit |-> dailyCostLimit ]

GenerateApiKey ==
  \E isActive \in BOOLEAN, expiresAt \in ExpiresAtValues, dailyCostLimit \in DailyCostLimits :
    LET keyId == KeyIds[issued + 1]
        apiKey == ApiKeyString(ApiKeyPrefix, GenerateSecretKey(issued + 1))
        hashedKey == HashApiKey(apiKey)
        keyData == NewKeyData(issued + 1, isActive, expiresAt, dailyCostLimit)
    IN  /\ reply = NoReply
        /\ issued < Len(KeyIds)
        /\ keyOps < MaxKeyOps
        /\ keyOps' = keyOps + 1
        /\ keys' = SetApiKey(keys, keyId, keyData)
        /\ index' = SetHashIndex(index, hashedKey, keyId)
        /\ issued' = issued + 1
        /\ reply' = [op |-> "generate", id |-> keyId, apiKey |-> apiKey, status |-> "ok"]
        /\ UNCHANGED <<usage, accountUsage, dailyCost, now>>
        /\ SchedulerUnchanged

\* The store operations of validateApiKey that may throw.
ValidateStoreCalls == {"findApiKeyByHash", "getUsageStats", "getDailyCost"}

Rejected(error) == [valid |-> FALSE, error |-> error, id |-> ""]

\* An expiry test that includes the instant of expiry.
HasExpiredInclusive(keyData) == keyData.expiresAt # <<>> /\ now >= keyData.expiresAt[1]

\* new Date() > new Date(keyData.expiresAt)
HasExpired(keyData) == keyData.expiresAt # <<>> /\ now > keyData.expiresAt[1]

\* A validation without the isActive test.
ValidateApiKeyIgnoringDisabled(apiKey, failing) ==
  LET keyData == FindApiKeyByHash(HashApiKey(apiKey))
  IN  IF apiKey.prefix # ApiKeyPrefix THEN Rejected("Invalid API key format")
      ELSE IF failing = "findApiKeyByHash" THEN Rejected("Internal validation error")
      ELSE IF keyData = NoKey THEN Rejected("API key not found")
      ELSE IF HasExpired(keyData) THEN Rejected("API key has expired")
      ELSE IF failing # "" THEN Rejected("Internal validation error")
      ELSE [valid |-> TRUE, error |-> "", id |-> keyData.id]

\* validateApiKey(apiKey); `failing` is the store operation that throws
\* during the call, "" if none does.
ValidateApiKey(apiKey, failing) ==
  LET keyData == FindApiKeyByHash(HashApiKey(apiKey))
  IN  IF apiKey.prefix # ApiKeyPrefix THEN Rejected("Invalid API key format")
      ELSE IF failing = "findApiKeyByHash" THEN Rejected("Internal validation error")
      ELSE IF keyData = NoKey THEN Rejected("API key not found")
      ELSE IF keyData.isActive # "true" THEN Rejected("API key is disabled")
      ELSE IF HasExpired(keyData) THEN Rejected("API key has expired")
      ELSE IF failing # "" THEN Rejected("Internal validation error")
      ELSE [valid |-> TRUE, error |-> "", id |-> keyData.id]

\* A client has its key validated.
Validate ==
  \E apiKey \in PresentedKeys, failing \in ValidateStoreCalls \cup {""} :
    LET v == ValidateApiKey(apiKey, failing)
    IN  /\ reply = NoReply
        /\ reply' = [ op |-> "validate", apiKey |-> apiKey, failing |-> failing,
                      valid |-> v.valid, error |-> v.error, id |-> v.id ]
        /\ UNCHANGED <<keys, index, issued, usage, accountUsage, dailyCost, keyOps, now>>
        /\ SchedulerUnchanged

\* The quota data validateApiKey returns with a valid key: dailyCostLimit
\* parsed from the record and the cost redis.getDailyCost reads.
QuotaOf(keyId) == [dailyCostLimit |-> keys[keyId].dailyCostLimit, dailyCost |-> dailyCost[keyId]]

\* Admission of a request presenting apiKey: validation, then the daily
\* cost quota on the data validation returned.
Admission(apiKey) ==
  LET v == ValidateApiKey(apiKey, "")
  IN  IF ~v.valid THEN v.error
      ELSE IF QuotaOf(v.id).dailyCostLimit > 0
              /\ QuotaOf(v.id).dailyCost >= QuotaOf(v.id).dailyCostLimit
      THEN "DailyCostExceeded"
      ELSE "Admitted"

\* A request presents its key for admission.
Admit ==
  \E apiKey \in PresentedKeys :
    /\ reply = NoReply
    /\ reply' = [ op |-> "admit", apiKey |-> apiKey, result |-> Admission(apiKey),
                  id |-> ValidateApiKey(apiKey, "").id ]
    /\ UNCHANGED <<keys, index, issued, usage, accountUsage, dailyCost, keyOps, now>>
    /\ SchedulerUnchanged

\* The fields an admin update writes, as updateApiKey stores them.
UpdateValues ==
  { [field |-> "isActive", value |-> BoolToString(b)] : b \in BOOLEAN }
  \cup { [field |-> "expiresAt", value |-> e] : e \in ExpiresAtValues }
  \cup { [field |-> "name", value |-> n] : n \in KeyNames }

\* The record updateApiKey(keyId, updates) writes back.
Updated(keyData, u) == [keyData EXCEPT ![u.field] = u.value]

\* updateApiKey(keyId, updates): throws for an id without a record.
UpdateApiKey ==
  \E keyId \in KeyIdSet, u \in UpdateValues :
    LET found == keys[keyId] # NoKey
    IN  /\ reply = NoReply
        /\ keyOps < MaxKeyOps
        /\ keyOps' = keyOps + 1
        /\ keys' = IF found THEN SetApiKey(keys, keyId, Updated(keys[keyId], u)) ELSE keys
        /\ reply' = [ op |-> "update", id |-> keyId, update |-> u,
                      status |-> IF found THEN "ok" ELSE "API key not found" ]
        /\ UNCHANGED <<index, issued, usage, accountUsage, dailyCost, now>>
        /\ SchedulerUnchanged

\* deleteApiKey(keyId): throws when the store deleted nothing.
DeleteApiKey ==
  \E keyId \in KeyIdSet :
    LET found == keys[keyId] # NoKey
    IN  /\ reply = NoReply
        /\ keyOps < MaxKeyOps
        /\ keyOps' = keyOps + 1
        /\ keys' = SetApiKey(keys, keyId, NoKey)
        /\ index' = DeleteFromIndex(index, keyId)
        /\ reply' = [ op |-> "delete", id |-> keyId,
                      status |-> IF found THEN "ok" ELSE "API key not found" ]
        /\ UNCHANGED <<issued, usage, accountUsage, dailyCost, now>>
        /\ SchedulerUnchanged

\* The expired keys, disabled or not.
ExpiredAny ==
  { k \in KeyIdSet :
      keys[k] # NoKey /\ keys[k].expiresAt # <<>> /\ keys[k].expiresAt[1] < now }

\* The keys cleanupExpiredKeys disables: expired and still active.
ExpiredActive ==
  { k \in KeyIdSet :
      /\ keys[k] # NoKey
      /\ keys[k].expiresAt # <<>>
      /\ keys[k].expiresAt[1] < now
      /\ keys[k].isActive = "true" }

\* cleanupExpiredKeys(): updateApiKey(key.id, {isActive: false}) for each
\* expired active key; returns their number.
CleanupExpiredKeys ==
  /\ reply = NoReply
  /\ keyOps < MaxKeyOps
  /\ keyOps' = keyOps + 1
  /\ keys' = [ k \in KeyIdSet |->
                 IF k \in ExpiredActive
                 THEN Updated(keys[k], [field |-> "isActive", value |-> BoolToString(FALSE)])
                 ELSE keys[k] ]
  /\ reply' = [op |-> "cleanup", count |-> Cardinality(ExpiredActive), before |-> keys]
  /\ UNCHANGED <<index, issued, usage, accountUsage, dailyCost, now>>
  /\ SchedulerUnchanged

\* The caller takes the result of the call.
KeyReturn ==
  /\ reply # NoReply
  /\ reply' = NoReply
  /\ UNCHANGED <<keys, index, issued, usage, accountUsage, dailyCost, keyOps, now>>
  /\ SchedulerUnchanged

\* Time passes.
KeyTick ==
  /\ reply = NoReply
  /\ now < MaxClock
  /\ now' = now + 1
  /\ UNCHANGED keyVars
  /\ SchedulerUnchanged

\* Token counts of one request: input, output, cache-create, cache-read.
Tokens(i, o, cc, cr) ==
  [inputTokens |-> i, outputTokens |-> o, cacheCreateTokens |-> cc, cacheReadTokens |-> cr]

TokenCounts ==
  {Tokens(1, 0, 0, 0), Tokens(0, 1, 0, 0), Tokens(0, 0, 1, 0), Tokens(0, 0, 0, 1)}

\* const totalTokens = inputTokens + outputTokens + cacheCreateTokens + cacheReadTokens
TotalTokens(t) == t.inputTokens + t.outputTokens + t.cacheCreateTokens + t.cacheReadTokens

UsageModels == {"m1", "unknown"}

\* The price table: unit prices per category, zero for a model it does not list.
PriceTable(model) ==
  IF model = "m1" THEN Tokens(3, 15, 4, 1) ELSE Tokens(0, 0, 0, 0)

\* CostCalculator.calculateCost(usage, model).costs.total
CalculateCost(t, model) ==
  LET p == PriceTable(model)
  IN  t.inputTokens * p.inputTokens + t.outputTokens * p.outputTokens
        + t.cacheCreateTokens * p.cacheCreateTokens + t.cacheReadTokens * p.cacheReadTokens

\* redis.incrementTokenUsage / redis.incrementAccountUsage on one counter.
IncrementUsage(c, t) ==
  [ requests          |-> c.requests + 1,
    inputTokens       |-> c.inputTokens + t.inputTokens,
    outputTokens      |-> c.outputTokens + t.outputTokens,
    cacheCreateTokens |-> c.cacheCreateTokens + t.cacheCreateTokens,
    cacheReadTokens   |-> c.cacheReadTokens + t.cacheReadTokens,
    allTokens         |-> c.allTokens + TotalTokens(t) ]

\* The store operations of recordUsage, in the order it performs them.
RecordStoreCalls ==
  <<"incrementTokenUsage", "incrementDailyCost", "getApiKey", "setApiKey", "incrementAccountUsage">>

RecordCalls == {RecordStoreCalls[i] : i \in 1..Len(RecordStoreCalls)}

\* Position of a store operation in recordUsage; past the end for "".
CallIndex(failing) ==
  IF failing = "" THEN Len(RecordStoreCalls) + 1
  ELSE CHOOSE i \in 1..Len(RecordStoreCalls) : RecordStoreCalls[i] = failing

\* The part of the store recordUsage touches.
Store(ks, us, au, dc) == [keys |-> ks, usage |-> us, accountUsage |-> au, dailyCost |-> dc]

\* The catch block of recordUsage: logs the error; whether it throws on.
RecordUsageCatchRethrows(caught) == caught

RecordUsageCatch(caught) == FALSE

\* A gate that drops the smallest cost.
RecordsCostAboveOne(cost) == cost > 1

\* if (costInfo.costs.total > 0)
RecordsCost(cost) == cost > 0

\* Whether recordUsage performs the store operation `call` on this input.
Performs(S, keyId, t, model, accountId, call) ==
  CASE call = "incrementDailyCost" -> RecordsCost(CalculateCost(t, model))
    [] call = "setApiKey" -> S.keys[keyId] # NoKey
    [] call = "incrementAccountUsage" -> S.keys[keyId] # NoKey /\ accountId # ""
    [] OTHER -> TRUE

\* recordUsage(keyId, tokens, model, accountId) at instant `at` on store S;
\* `failing` is the store operation that throws when called, "" if none
\* does. The result holds the store the call leaves, whether an error was
\* caught and logged, and whether one reached the caller.
RecordUsageOn(S, keyId, t, model, accountId, failing, at) ==
  LET caught == failing # "" /\ Performs(S, keyId, t, model, accountId, failing)
      stop == IF caught THEN CallIndex(failing) ELSE CallIndex("")
      done(call) == CallIndex(call) < stop /\ Performs(S, keyId, t, model, accountId, call)
      usage1 == IF done("incrementTokenUsage")
                THEN [S.usage EXCEPT ![keyId] = IncrementUsage(@, t)] ELSE S.usage
      cost1 == IF done("incrementDailyCost")
               THEN [S.dailyCost EXCEPT ![keyId] = @ + CalculateCost(t, model)] ELSE S.dailyCost
      keys1 == IF done("setApiKey")
               THEN SetApiKey(S.keys, keyId, [S.keys[keyId] EXCEPT !.lastUsedAt = <<at>>])
               ELSE S.keys
      account1 == IF done("incrementAccountUsage")
                  THEN [S.accountUsage EXCEPT ![accountId] = IncrementUsage(@, t)]
                  ELSE S.accountUsage
  IN  [ store  |-> Store(keys1, usage1, account1, cost1),
        caught |-> caught,
        thrown |-> RecordUsageCatch(caught) ]

\* recordUsage(keyId, inputTokens, outputTokens, cacheCreateTokens,
\* cacheReadTokens, model, accountId)
RecordUsage ==
  \E keyId \in KeyIdSet, t \in TokenCounts, model \in UsageModels,
     accountId \in RecordedAccounts \cup {""}, failing \in RecordCalls \cup {""} :
    LET S == Store(keys, usage, accountUsage, dailyCost)
        r == RecordUsageOn(S, keyId, t, model, accountId, failing, now)
    IN  /\ reply = NoReply
        /\ keyOps < MaxKeyOps
        /\ keyOps' = keyOps + 1
        /\ keys' = r.store.keys
        /\ usage' = r.store.usage
        /\ accountUsage' = r.store.accountUsage
        /\ dailyCost' = r.store.dailyCost
        /\ reply' = [ op |-> "record", id |-> keyId, tokens |-> t, model |-> model,
                      accountId |-> accountId, failing |-> failing,
                      found |-> keys[keyId] # NoKey, before |-> S,
                      caught |-> r.caught, thrown |-> r.thrown ]
        /\ UNCHANGED <<index, issued, now>>
        /\ SchedulerUnchanged

\* ---- recordUsage, one store operation at a time ----

\* Cap on the recordUsage calls followed store operation by store operation.
MaxRecords == 1

\* The calls recorded so far, over all keys.
RecordsSoFar == usage["k1"].requests + usage["k2"].requests

\* recordUsage up to its read of the record: incrementTokenUsage, then
\* incrementDailyCost when the cost is positive.
RecordCount ==
  \E keyId \in KeyIdSet, accountId \in RecordedAccounts \cup {""} :
   LET t == Tokens(1, 0, 0, 0)
       model == "m1"
   IN
    /\ rec = NoRecord
    /\ RecordsSoFar < MaxRecords
    /\ usage' = [usage EXCEPT ![keyId] = IncrementUsage(@, t)]
    /\ dailyCost' = IF RecordsCost(CalculateCost(t, model))
                    THEN [dailyCost EXCEPT ![keyId] = @ + CalculateCost(t, model)]
                    ELSE dailyCost
    /\ rec' = [ pc |-> "getApiKey", id |-> keyId, tokens |-> t, model |-> model,
                accountId |-> accountId, keyData |-> NoKey ]
    /\ UNCHANGED <<keys, index, issued, accountUsage, keyOps, reply, now>>
    /\ UNCHANGED <<sched, acct, sess, ops, pooled, last, gauge, flight, selects>>

\* const keyData = await redis.getApiKey(keyId)
RecordRead ==
  /\ rec.pc = "getApiKey"
  /\ rec' = [rec EXCEPT !.pc = "setApiKey", !.keyData = keys[rec.id]]
  /\ UNCHANGED keyVars
  /\ UNCHANGED <<sched, acct, sess, now, ops, pooled, last, gauge, flight, selects>>

\* keyData.lastUsedAt = new Date().toISOString();
\* await redis.setApiKey(keyId, keyData): the record that was read goes back
\* whole; skipped, with what follows, when the read found nothing.
RecordWrite ==
  /\ rec.pc = "setApiKey"
  /\ keys' = IF rec.keyData # NoKey
             THEN SetApiKey(keys, rec.id, [rec.keyData EXCEPT !.lastUsedAt = <<now>>])
             ELSE keys
  /\ rec' = IF rec.keyData # NoKey
            THEN [rec EXCEPT !.pc = "incrementAccountUsage"] ELSE NoRecord
  /\ UNCHANGED <<index, issued, usage, accountUsage, dailyCost, keyOps, reply, now>>
  /\ UNCHANGED <<sched, acct, sess, ops, pooled, last, gauge, flight, selects>>

\* if (accountId) await redis.incrementAccountUsage(...); the call returns.
RecordAccount ==
  /\ rec.pc = "incrementAccountUsage"
  /\ accountUsage' = IF rec.accountId # ""
                     THEN [accountUsage EXCEPT ![rec.accountId] = IncrementUsage(@, rec.tokens)]
                     ELSE accountUsage
  /\ rec' = NoRecord
  /\ UNCHANGED <<keys, index, issued, usage, dailyCost, keyOps, reply, now>>
  /\ UNCHANGED <<sched, acct, sess, ops, pooled, last, gauge, flight, selects>>

\* recordUsage running beside the admin calls on the same store.
RaceNext ==
  \/ GenerateApiKey
  \/ UpdateApiKey
  \/ DeleteApiKey
  \/ CleanupExpiredKeys
  \/ KeyReturn
  \/ KeyTick
  \/ RecordCount
  \/ RecordRead
  \/ RecordWrite
  \/ RecordAccount

\* ---- an admitted request, from admission to release ----

\* How an admitted request ends.
Outcomes == {"completed", "upstream-error", "timeout", "cancelled"}

\* The token counts the recorder is given: those of the response, or those
\* observed so far when the request was aborted.
ObservedTokens(outcome) ==
  IF outcome = "completed" THEN Tokens(1, 0, 0, 0) ELSE Tokens(0, 0, 0, 0)

\* Admission of a request: validation and the quota check, then the
\* reservation, one atomic increment of the key's gauge.
FlowAdmit ==
  \E r \in Requests, apiKey \in PresentedKeys :
    LET keyId == ValidateApiKey(apiKey, "").id
    IN  /\ flight[r] = NoFlight
        /\ Admission(apiKey) = "Admitted"
        /\ gauge' = [gauge EXCEPT ![keyId] = @ + 1]
        /\ flight' = [flight EXCEPT ![r] = [ phase |-> "admitted", id |-> keyId, outcome |-> "",
                                             caught |-> FALSE, released |-> 0 ]]
        /\ UNCHANGED <<keyVars, rec, selects>>
        /\ UNCHANGED <<sched, acct, sess, now, ops, pooled, last>>

\* The response completes, the upstream fails, the deadline passes or the
\* client goes away.
FlowOutcome ==
  \E r \in Requests, outcome \in Outcomes :
    /\ flight[r].phase = "admitted"
    /\ flight' = [flight EXCEPT ![r].phase = "ended", ![r].outcome = outcome]
    /\ UNCHANGED <<keyVars, rec, gauge, selects>>
    /\ UNCHANGED <<sched, acct, sess, now, ops, pooled, last>>

\* The recorder runs for the request: recordUsage; an error it let through
\* would end the request before the release.
FlowRecord ==
  \E r \in Requests, failing \in RecordCalls \cup {""} :
    LET S == Store(keys, usage, accountUsage, dailyCost)
        u == RecordUsageOn(S, flight[r].id, ObservedTokens(flight[r].outcome), "m1", "p1",
                           failing, now)
    IN  /\ flight[r].phase = "ended"
        /\ keys' = u.store.keys
        /\ usage' = u.store.usage
        /\ accountUsage' = u.store.accountUsage
        /\ dailyCost' = u.store.dailyCost
        /\ flight' = [flight EXCEPT ![r].phase = IF u.thrown THEN "failed" ELSE "recorded",
                                    ![r].caught = u.caught]
        /\ UNCHANGED <<index, issued, keyOps, reply, rec, gauge, selects>>
        /\ UNCHANGED <<sched, acct, sess, now, ops, pooled, last>>

\* The reservation of the request is released: one atomic decrement.
FlowRelease ==
  \E r \in Requests :
    /\ flight[r].phase = "recorded"
    /\ gauge' = [gauge EXCEPT ![flight[r].id] = @ - 1]
    /\ flight' = [flight EXCEPT ![r].phase = "finished", ![r].released = @ + 1]
    /\ UNCHANGED <<keyVars, rec, selects>>
    /\ UNCHANGED <<sched, acct, sess, now, ops, pooled, last>>

\* The store once a first key, active and without expiry, was generated and
\* handed out.
FlowInit ==
  \E dailyCostLimit \in DailyCostLimits :
    LET keyData == NewKeyData(1, TRUE, <<>>, dailyCostLimit)
    IN  /\ sched = "openai"
        /\ acct = [id \in AllIds |-> DefaultAccount]
        /\ sess = [h \in Hashes |-> NoMapping]
        /\ pooled = [h \in Hashes |-> NoMapping]
        /\ now = 1
        /\ ops = 0
        /\ last = Idle
        /\ keys = SetApiKey([k \in KeyIdSet |-> NoKey], keyData.id, keyData)
        /\ index = SetHashIndex([h \in PresentedHashes |-> ""], keyData.apiKey, keyData.id)
        /\ issued = 1
        /\ usage = [k \in KeyIdSet |-> ZeroUsage]
        /\ accountUsage = [a \in UsageAccounts |-> ZeroUsage]
        /\ dailyCost = [k \in KeyIdSet |-> 0]
        /\ keyOps = 1
        /\ reply = NoReply
        /\ NothingInProgress

FlowNext ==
  \/ FlowAdmit
  \/ FlowOutcome
  \/ FlowRecord
  \/ FlowRelease

\* ---- the stats endpoints ----

Endpoints == {"get-key-id", "user-stats", "user-model-stats"}

ByApiKey(apiKey) == [by |-> "apiKey", apiKey |-> apiKey, apiId |-> ""]

ByApiId(apiId) == [by |-> "apiId", apiKey |-> NoKey, apiId |-> apiId]

\* The request bodies: a key string, or the id of a key.
Identifications ==
  {ByApiKey(apiKey) : apiKey \in PresentedKeys} \cup {ByApiId(apiId) : apiId \in KeyIdSet}

\* The store operations a stats request may see throw.
StatsStoreCalls == ValidateStoreCalls \cup {"getApiKey"}

\* POST /api/get-key-id: the status it answers with.
GetKeyIdStatus(apiKey, failing) ==
  IF ~ValidateApiKey(apiKey, failing).valid THEN 401 ELSE 200

\* POST /api/user-stats
UserStatsStatus(ident, failing) ==
  IF ident.by = "apiId"
  THEN LET keyData == keys[ident.apiId]
       IN  IF failing = "getApiKey" THEN 500
           ELSE IF keyData = NoKey THEN 404
           ELSE IF keyData.isActive # "true" THEN 403
           ELSE IF HasExpired(keyData) THEN 403
           ELSE IF failing \in {"getUsageStats", "getDailyCost"} THEN 500
           ELSE 200
  ELSE IF ~ValidateApiKey(ident.apiKey, failing).valid THEN 401 ELSE 200

\* POST /api/user-model-stats
UserModelStatsStatus(ident, failing) ==
  IF ident.by = "apiId"
  THEN LET keyData == keys[ident.apiId]
       IN  IF failing = "getApiKey" THEN 500
           ELSE IF keyData = NoKey THEN 404
           ELSE IF keyData.isActive # "true" THEN 403
           ELSE IF failing = "getUsageStats" THEN 500
           ELSE 200
  ELSE IF ~ValidateApiKey(ident.apiKey, failing).valid THEN 401 ELSE 200

\* The body the three routes send with 401 for a rejected key string.
RejectionBody(apiKey) ==
  [error |-> "Invalid API key", message |-> ValidateApiKey(apiKey, "").error]

StatsStatus(endpoint, ident, failing) ==
  CASE endpoint = "get-key-id" -> GetKeyIdStatus(ident.apiKey, failing)
    [] endpoint = "user-stats" -> UserStatsStatus(ident, failing)
    [] endpoint = "user-model-stats" -> UserModelStatsStatus(ident, failing)

\* A client asks one of the stats endpoints.
StatsRequest ==
  \E endpoint \in Endpoints, ident \in Identifications, failing \in StatsStoreCalls \cup {""} :
    /\ reply = NoReply
    /\ endpoint = "get-key-id" => ident.by = "apiKey"
    /\ reply' = [ op |-> "stats", endpoint |-> endpoint, ident |-> ident,
                  failing |-> failing, status |-> StatsStatus(endpoint, ident, failing) ]
    /\ UNCHANGED <<keys, index, issued, usage, accountUsage, dailyCost, keyOps, now>>
    /\ SchedulerUnchanged

\* ---- the key service as a state machine ----

KeyInit ==
  /\ sched = "openai"
  /\ acct = [id \in AllIds |-> DefaultAccount]
  /\ sess = [h \in Hashes |-> NoMapping]
  /\ pooled = [h \in Hashes |-> NoMapping]
  /\ now = 1
  /\ ops = 0
  /\ last = Idle
  /\ KeyStoreEmpty

KeyNext ==
  \/ GenerateApiKey
  \/ UpdateApiKey
  \/ DeleteApiKey
  \/ CleanupExpiredKeys
  \/ RecordUsage
  \/ Validate
  \/ Admit
  \/ StatsRequest
  \/ KeyReturn
  \/ KeyTick

KeySpec == KeyInit /\ [][KeyNext]_vars

RaceSpec == KeyInit /\ [][RaceNext]_vars

FlowSpec == FlowInit /\ [][FlowNext]_vars

(* ------------------------- admission of API keys ------------------------ *)

\* The API key generateApiKey returned with the i-th id.
IssuedKey(i) == ApiKeyString(ApiKeyPrefix, GenerateSecretKey(i))

\* The stored record is active and its expiry, if set, is not in the past.
ActiveUnexpired(keyData) ==
  /\ keyData # NoKey
  /\ keyData.isActive = "true"
  /\ keyData.expiresAt = <<>> \/ keyData.expiresAt[1] >= now

Validated == reply.op = "validate"

\* C23: in every state reached by generate, update, cleanup, record and
\* validate calls, validateApiKey answers valid only with the id of a stored
\* key that has the presented hash, is active and has no expiry in the past;
\* the key of a disabled or expired record is never admitted.
C23_OnlyActiveUnexpiredAdmits ==
  /\ \A apiKey \in PresentedKeys, failing \in ValidateStoreCalls \cup {""} :
       LET v == ValidateApiKey(apiKey, failing)
       IN  v.valid =>
             /\ v.id \in KeyIdSet
             /\ keys[v.id].apiKey = HashApiKey(apiKey)
             /\ ActiveUnexpired(keys[v.id])
  /\ \A i \in 1..issued :
       ~ActiveUnexpired(keys[KeyIds[i]]) => ~ValidateApiKey(IssuedKey(i), "").valid
  /\ Validated /\ reply.valid => ActiveUnexpired(keys[reply.id])

\* A key is admitted while the other key is disabled or expired.
C23_Witness ==
  /\ Validated /\ reply.valid
  /\ \E k \in KeyIdSet : keys[k] # NoKey /\ ~ActiveUnexpired(keys[k])

\* C24 as stated: a key whose expiresAt is the current instant is rejected as
\* expired.
C24_ExpiryBoundaryInclusive ==
  \A i \in 1..issued :
    LET keyData == keys[KeyIds[i]]
    IN  keyData # NoKey /\ keyData.isActive = "true" /\ keyData.expiresAt = <<now>>
          => ValidateApiKey(IssuedKey(i), "") = Rejected("API key has expired")

\* C24: an active key whose expiresAt is the current instant is still
\* admitted, by validateApiKey and by user-stats for its id; it is rejected
\* as expired at every later instant.
C24_ExpiryBoundaryExclusive ==
  \A i \in 1..issued :
    LET keyData == keys[KeyIds[i]]
        set == keyData # NoKey /\ keyData.isActive = "true" /\ keyData.expiresAt # <<>>
    IN  /\ set /\ keyData.expiresAt[1] = now =>
              /\ ValidateApiKey(IssuedKey(i), "").valid
              /\ UserStatsStatus(ByApiId(KeyIds[i]), "") = 200
        /\ set /\ keyData.expiresAt[1] < now =>
              /\ ValidateApiKey(IssuedKey(i), "") = Rejected("API key has expired")
              /\ UserStatsStatus(ByApiId(KeyIds[i]), "") = 403

\* A key is admitted at the instant of its expiry, reached by the clock.
C24_Witness ==
  /\ Validated /\ reply.valid
  /\ keys[reply.id].expiresAt = <<now>>
  /\ now > 1

\* C25: validating the key generateApiKey returned succeeds with the id it
\* returned, as long as the record is active and unexpired, whatever updates
\* were made.
C25_GeneratedKeyValidatesToItsId ==
  /\ \A i \in 1..issued :
       ActiveUnexpired(keys[KeyIds[i]]) =>
         /\ ValidateApiKey(IssuedKey(i), "").valid
         /\ ValidateApiKey(IssuedKey(i), "").id = KeyIds[i]
  /\ reply.op = "generate" => reply.apiKey = IssuedKey(issued) /\ reply.id = KeyIds[issued]

\* The key generated first is validated to its id after the second key was
\* generated and after an update.
C25_Witness ==
  /\ Validated /\ reply.valid
  /\ reply.apiKey = IssuedKey(1) /\ reply.id = KeyIds[1]
  /\ issued = 2 \/ keys[KeyIds[1]].name = "b"

(* ----------------------- answers of the stats endpoints ------------------ *)

\* The record is disabled, or its expiry is in the past.
DisabledOrExpired(keyData) ==
  keyData # NoKey /\ (keyData.isActive # "true" \/ HasExpired(keyData))

StatsAsked == reply.op = "stats"

\* C26: with no store failure, every stats endpoint answers 403 for a
\* disabled or expired key and 401 for a key string without a record, gives
\* the same status for a key named by its key string or by its id, and never
\* answers 200 for an expired key.
C26_StatsStatusByKeyState ==
  \A i \in 1..issued, endpoint \in Endpoints :
    LET keyData == keys[KeyIds[i]]
        byKey == StatsStatus(endpoint, ByApiKey(IssuedKey(i)), "")
        byId == IF endpoint = "get-key-id" THEN byKey
                ELSE StatsStatus(endpoint, ByApiId(KeyIds[i]), "")
    IN  /\ DisabledOrExpired(keyData) => byKey = 403 /\ byId = 403
        /\ keyData = NoKey => byKey = 401
        /\ keyData # NoKey => byKey = byId

\* C27: a store operation throwing inside validateApiKey makes get-key-id
\* answer 500, neither 401 nor 200.
C27_StoreFailureIsInternalError ==
  /\ \A apiKey \in PresentedKeys :
       apiKey.prefix = ApiKeyPrefix => GetKeyIdStatus(apiKey, "findApiKeyByHash") = 500
  /\ \A i \in 1..issued, failing \in {"getUsageStats", "getDailyCost"} :
       ValidateApiKey(IssuedKey(i), "").valid => GetKeyIdStatus(IssuedKey(i), failing) = 500

(* ------------------------------ usage records --------------------------- *)

Recorded == reply.op = "record"

\* C28: recordUsage returns normally whichever of its store operations
\* throws.
C28_RecordUsageNeverThrows ==
  Recorded =>
    /\ ~reply.thrown
    /\ reply.caught <=>
          /\ reply.failing # ""
          /\ Performs(reply.before, reply.id, reply.tokens, reply.model,
                      reply.accountId, reply.failing)

\* The write of the key record threw after the counters were incremented,
\* and the call returned.
C28_Witness ==
  /\ Recorded /\ reply.caught /\ ~reply.thrown
  /\ reply.failing = "setApiKey"
  /\ usage[reply.id] # reply.before.usage[reply.id]

\* Counter c2 is c1 increased by exactly the token counts t.
IncreasedBy(c1, c2, t) ==
  /\ c2.inputTokens = c1.inputTokens + t.inputTokens
  /\ c2.outputTokens = c1.outputTokens + t.outputTokens
  /\ c2.cacheCreateTokens = c1.cacheCreateTokens + t.cacheCreateTokens
  /\ c2.cacheReadTokens = c1.cacheReadTokens + t.cacheReadTokens
  /\ c2.allTokens = c1.allTokens + TotalTokens(t)

\* No field of c2 is below that of c1.
NotBelow(c1, c2) == \A f \in DOMAIN c1 : c2[f] >= c1[f]

\* C29: a recordUsage call without store failure increases the counters of
\* the key by exactly the token counts, and those of the account by the same
\* amounts if and only if an accountId was passed, whether or not the key
\* record exists; no counter decreases.
C29_CountersIncreaseExactly ==
  Recorded /\ reply.failing = "" =>
    /\ IncreasedBy(reply.before.usage[reply.id], usage[reply.id], reply.tokens)
    /\ \A a \in UsageAccounts :
         IF a = reply.accountId
         THEN IncreasedBy(reply.before.accountUsage[a], accountUsage[a], reply.tokens)
         ELSE accountUsage[a] = reply.before.accountUsage[a]
    /\ \A k \in KeyIdSet : NotBelow(reply.before.usage[k], usage[k])
    /\ \A a \in UsageAccounts : NotBelow(reply.before.accountUsage[a], accountUsage[a])

\* The sum of two token counts.
AddTokens(a, b) ==
  Tokens(a.inputTokens + b.inputTokens, a.outputTokens + b.outputTokens,
         a.cacheCreateTokens + b.cacheCreateTokens, a.cacheReadTokens + b.cacheReadTokens)

\* A recordUsage call has just returned without store failure.
RecordedClean == Recorded /\ reply.failing = ""

\* The store after a second recordUsage, with b, for the key, model and
\* account of the call that has just returned.
RecordedThen(b) ==
  RecordUsageOn(Store(keys, usage, accountUsage, dailyCost),
                reply.id, b, reply.model, reply.accountId, "", now).store

\* The store one recordUsage with a + b leaves, from the state the call that
\* has just returned with a started in.
RecordedAtOnce(b) ==
  RecordUsageOn(reply.before, reply.id, AddTokens(reply.tokens, b),
                reply.model, reply.accountId, "", now).store

\* The token fields of a counter.
TokenFields(c) == [f \in DOMAIN c \ {"requests"} |-> c[f]]

\* C30 as stated: recording a and then b leaves the usage counters identical
\* to recording a + b once.
C30_TwoRecordsEqualOne ==
  RecordedClean =>
    \A b \in TokenCounts :
      /\ RecordedThen(b).usage = RecordedAtOnce(b).usage
      /\ RecordedThen(b).accountUsage = RecordedAtOnce(b).accountUsage
      /\ RecordedThen(b).dailyCost = RecordedAtOnce(b).dailyCost

\* C30: recording a and then b leaves the token counters and the daily cost
\* identical to recording a + b once; the request counters of the key, and of
\* the account when it is counted, are higher by one.
C30_TwoRecordsEqualOneInTokens ==
  RecordedClean =>
    \A b \in TokenCounts :
      LET two == RecordedThen(b)
          one == RecordedAtOnce(b)
          counted == reply.found /\ reply.accountId # ""
      IN  /\ \A k \in KeyIdSet : TokenFields(two.usage[k]) = TokenFields(one.usage[k])
          /\ \A k \in KeyIdSet :
               two.usage[k].requests = one.usage[k].requests + (IF k = reply.id THEN 1 ELSE 0)
          /\ \A acc \in UsageAccounts :
               /\ TokenFields(two.accountUsage[acc]) = TokenFields(one.accountUsage[acc])
               /\ two.accountUsage[acc].requests =
                    one.accountUsage[acc].requests
                      + (IF counted /\ acc = reply.accountId THEN 1 ELSE 0)
          /\ two.dailyCost = one.dailyCost

\* Two calls were recorded for one key, each with a cost: its request counter
\* is two, its token total the sum of both calls.
C30_Witness ==
  /\ RecordedClean
  /\ reply.before.usage[reply.id].requests = 1
  /\ usage[reply.id].requests = 2
  /\ usage[reply.id].allTokens = 2
  /\ reply.before.dailyCost[reply.id] > 0
  /\ dailyCost[reply.id] > reply.before.dailyCost[reply.id]

(* ------------------------------ daily cost quota ------------------------ *)

Admitting == reply.op = "admit"

\* C31: the cost recordUsage records is added to the key's cost of the day;
\* a valid key with dailyCostLimit > 0 is admitted while that cost is below
\* the limit and refused with DailyCostExceeded once it has reached it, and
\* stays refused whatever is recorded later; a key with dailyCostLimit = 0 is
\* never refused for its cost.
C31_DailyCostLimitEnforced ==
  /\ RecordedClean =>
       dailyCost[reply.id] = reply.before.dailyCost[reply.id]
                               + CalculateCost(reply.tokens, reply.model)
  /\ \A k \in KeyIdSet : dailyCost[k] >= 0
  /\ Recorded => \A k \in KeyIdSet : dailyCost[k] >= reply.before.dailyCost[k]
  /\ \A i \in 1..issued :
       LET k == KeyIds[i]
           result == Admission(IssuedKey(i))
       IN  ValidateApiKey(IssuedKey(i), "").valid =>
             /\ keys[k].dailyCostLimit > 0 /\ dailyCost[k] < keys[k].dailyCostLimit
                  => result = "Admitted"
             /\ keys[k].dailyCostLimit > 0 /\ dailyCost[k] >= keys[k].dailyCostLimit
                  => result = "DailyCostExceeded"
             /\ keys[k].dailyCostLimit = 0 => result = "Admitted"

\* A key is refused after the cost recorded for it reached its limit exactly.
C31_Witness ==
  /\ Admitting /\ reply.result = "DailyCostExceeded"
  /\ dailyCost[reply.id] = keys[reply.id].dailyCostLimit

(* ------------------------------ expiry cleanup -------------------------- *)

CleanedUp == reply.op = "cleanup"

\* C33: after cleanupExpiredKeys every key whose expiresAt is in the past is
\* disabled, no record is deleted, the other keys are unchanged, an expired
\* key differs from before in isActive only, the count returned is the number
\* of keys flipped from active to disabled, and a second run at once finds
\* nothing to disable.
C33_CleanupDisablesExpiredOnly ==
  CleanedUp =>
    /\ \A k \in KeyIdSet :
         LET old == reply.before[k]
             expired == old # NoKey /\ old.expiresAt # <<>> /\ old.expiresAt[1] < now
         IN  /\ old = NoKey <=> keys[k] = NoKey
             /\ expired => keys[k] = [old EXCEPT !.isActive = "false"]
             /\ ~expired => keys[k] = old
    /\ reply.count =
         Cardinality({ k \in KeyIdSet : reply.before[k] # NoKey /\ keys[k] # NoKey
                         /\ reply.before[k].isActive = "true" /\ keys[k].isActive = "false" })
    /\ ExpiredActive = {}

\* An expired active key was disabled by the run.
C33_Witness ==
  /\ CleanedUp /\ reply.count = 1
  /\ \E k \in KeyIdSet : reply.before[k] # NoKey /\ reply.before[k] # keys[k]

(* --------------------- last use of the upstream account ----------------- *)

\* C35: a recordUsage call that names an account sets the lastUsedAt of that
\* account to the current time.
C35_RecordSetsAccountLastUsed ==
  RecordedClean /\ reply.accountId # "" =>
    acct[reply.accountId].lastUsedAt = <<now>>

(* ------------------------- what a rejection reveals --------------------- *)

\* C36: a key string without the prefix and a well-formed key string no
\* stored key has the hash of get the same status and the same body from
\* every endpoint.
C36_RejectionsIndistinguishable ==
  \A a \in PresentedKeys, b \in PresentedKeys, endpoint \in Endpoints :
    /\ a.prefix # ApiKeyPrefix
    /\ b.prefix = ApiKeyPrefix
    /\ FindApiKeyByHash(HashApiKey(b)) = NoKey
    => /\ StatsStatus(endpoint, ByApiKey(a), "") = StatsStatus(endpoint, ByApiKey(b), "")
       /\ RejectionBody(a) = RejectionBody(b)

(* --------------------------- what a select writes ----------------------- *)

\* The key store and the counters are as they were.
KeysUntouched ==
  /\ keys' = keys /\ index' = index
  /\ usage' = usage /\ accountUsage' = accountUsage /\ dailyCost' = dailyCost

\* The mappings of the hashes other than h are as they were.
OtherMappingsUntouched(h) == \A x \in Hashes \ {h} : sess'[x] = sess[x]

\* The account record differs only by a rate-limit flag whose window had
\* passed and that is now cleared.
OnlyExpiredLimitCleared(id) ==
  \/ acct'[id] = acct[id]
  \/ /\ acct[id].rateLimitStatus = "limited"
     /\ ~WindowOpen(acct[id], now)
     /\ acct'[id] = [acct[id] EXCEPT !.rateLimitStatus = "normal", !.rateLimitedAt = <<>>]

RecordsComplete == rec = NoRecord

\* The key's record still holds what the admin update that has just
\* returned wrote.
UpdateKept ==
  reply.op = "update" /\ reply.status = "ok" =>
    /\ keys[reply.id] # NoKey
    /\ keys[reply.id][reply.update.field] = reply.update.value

\* Every key the cleanup that has just returned disabled is still disabled.
CleanupKept ==
  reply.op = "cleanup" =>
    \A k \in KeyIdSet :
      reply.before[k] # NoKey /\ keys[k] # NoKey /\ keys[k].isActive = "true"
        => reply.before[k].isActive = "true" /\ ~HasExpired(reply.before[k])

\* C34: once a recordUsage call and an admin update of the same key have
\* both completed, in whichever order their steps ran, the record holds
\* every field the admin call wrote: a disabled key is not enabled again.
C34_AdminUpdateSurvivesRecord == RecordsComplete => UpdateKept /\ CleanupKept

\* ---- deletion beside recordUsage ----

\* C39: a deleted key stays deleted whatever recordUsage call was running,
\* and deleteApiKey or updateApiKey of an id without a record throws
\* "API key not found" and writes nothing.
C39_DeletedStaysDeleted ==
  /\ [](RecordsComplete /\ reply.op = "delete" => keys[reply.id] = NoKey)
  /\ [][ reply = NoReply /\ reply'.op \in {"update", "delete"} /\ keys[reply'.id] = NoKey
           => /\ reply'.status = "API key not found"
              /\ keys' = keys /\ index' = index /\ usage' = usage
              /\ accountUsage' = accountUsage /\ dailyCost' = dailyCost ]_vars


\* ---- the concurrency gauge ----

\* The request was admitted and has come to its end.
Finished(r) == flight[r].phase \in {"finished", "failed"}

\* The admitted requests of a key whose reservation is still held.
Holding(k) ==
  {r \in Requests : flight[r] # NoFlight /\ flight[r].id = k /\ flight[r].released = 0}

SharedHash == "h1"

\* selectAccountForApiKey up to its last read: the mapping of the hash and
\* the accounts are read and the account is chosen; what the call then
\* writes to the session map waits for SelectWrite.
SelectRead ==
  \E c \in Callers, key \in KeyData(sched), model \in Models \cup {NoModel},
     order \in OrdersOf(sched) :
    LET out == IF sched = "claude"
               THEN ClaudeSelectAccountForApiKey(key, SharedHash, model, order)
               ELSE OpenAISelectAccountForApiKey(key, SharedHash, model, order)
    IN  /\ selects[c] = NoCall
        /\ acct' = IF sched = "claude" THEN ClearExpired(out.read) ELSE acct
        /\ selects' = [selects EXCEPT ![c] =
                         [ pc |-> "write", accountId |-> out.accountId, rule |-> out.rule,
                           err |-> out.err,
                           eligible |-> out.err = "" /\ Eligible(out.accountId, key, model),
                           writes |-> out.sess[SharedHash] # sess[SharedHash],
                           mapping |-> out.sess[SharedHash] ]]
        /\ UNCHANGED <<sched, sess, now, ops, pooled, last, keyVars, rec, gauge, flight>>

\* The writes of the call, _deleteSessionMapping and _setSessionMapping,
\* reach the session map; the call returns.
SelectWrite ==
  \E c \in Callers :
    /\ selects[c] # NoCall
    /\ selects[c].pc = "write"
    /\ sess' = IF selects[c].writes
               THEN [sess EXCEPT ![SharedHash] = selects[c].mapping] ELSE sess
    /\ selects' = [selects EXCEPT ![c].pc = "done"]
    /\ UNCHANGED <<sched, acct, now, ops, pooled, last, keyVars, rec, gauge, flight>>

\* Neither caller has started.
NoCallYet == \A c \in Callers : selects[c] = NoCall

\* The accounts are edited or marked before the two calls, which then run
\* with nothing else beside them.
SelectRaceNext ==
  \/ NoCallYet /\ UpdateAccount
  \/ NoCallYet /\ MarkAccountRateLimited
  \/ SelectRead
  \/ SelectWrite

SelectRaceSpec == Init /\ [][SelectRaceNext]_vars

\* ---- two select calls with one session hash ----

\* Both callers have their account.
BothReturned ==
  \A c \in Callers : selects[c] # NoCall /\ selects[c].pc = "done" /\ selects[c].err = ""

\* C37: after two select calls with the same session hash and no mapping
\* before them, their reads and writes interleaved in any order, each
\* caller has an account that was eligible when the call read it, and the
\* mapping left for the hash names the account of one of the two callers.
C37_LastWriterWins ==
  BothReturned =>
    /\ \A c \in Callers : selects[c].eligible
    /\ sess[SharedHash].accountId \in {selects[c].accountId : c \in Callers}


\* ---- requests without end ----

\* The largest value a counter of the store holds; an increment past it is
\* refused by the store with an error.
CounterMax == 3

\* A request of an unbound key with no session hash and no model is
\* scheduled.
LiveSelect ==
  \E order \in OpenAIOrders :
    LET out == OpenAISelectAccountForApiKey(Unbound, "", NoModel, order)
    IN  /\ last = Idle
        /\ reply = NoReply
        /\ sess' = out.sess
        /\ pooled' = Keep(pooled, acct, now)
        /\ last' = [ op |-> "select", key |-> Unbound, h |-> "", model |-> NoModel,
                     accountId |-> out.accountId, accountType |-> out.accountType,
                     rule |-> out.rule, err |-> out.err,
                     before |-> Expire(sess, now), stuck |-> pooled ]
        /\ UNCHANGED <<sched, acct, now, ops, keyVars, procVars>>

\* The usage of the scheduled request is recorded for the account it was
\* given; the request is over.
LiveRecord ==
  \E t \in {Tokens(1, 0, 0, 0)}, model \in {"m1"} :
    LET S == Store(keys, usage, accountUsage, dailyCost)
        failing == IF usage["k1"].requests >= CounterMax THEN "incrementTokenUsage" ELSE ""
        u == RecordUsageOn(S, "k1", t, model, last.accountId, failing, now)
    IN  /\ last.op = "select"
        /\ last.err = ""
        /\ reply = NoReply
        /\ keys' = u.store.keys
        /\ usage' = u.store.usage
        /\ accountUsage' = u.store.accountUsage
        /\ dailyCost' = u.store.dailyCost
        /\ reply' = [ op |-> "record", id |-> "k1", tokens |-> t, model |-> model,
                      accountId |-> last.accountId, failing |-> failing, found |-> TRUE,
                      before |-> S, caught |-> u.caught, thrown |-> u.thrown ]
        /\ last' = Idle
        /\ UNCHANGED <<sched, acct, sess, now, ops, pooled, index, issued, keyOps, procVars>>

LiveNext ==
  \/ LiveSelect
  \/ LiveRecord
  \/ KeyReturn
  \/ KeyTick

\* Requests keep coming and each is recorded.
LiveSpec ==
  /\ FlowInit
  /\ [][LiveNext]_vars
  /\ WF_vars(LiveSelect)
  /\ WF_vars(LiveRecord)
  /\ WF_vars(KeyReturn)

\* ---- rotation among equal accounts ----

\* C40: an unbound key sends requests without a session hash for ever, each
\* followed by its usage recording; every account of the pool, all of them
\* eligible and of the same priority throughout, is selected again and
\* again.
C40_EveryEqualAccountSelectedAgain ==
  \A a \in OpenAIIds : []<>(last.op = "select" /\ last.accountId = a)

=============================================================================
